---- MODULE Spec2Model ----
(***************************************************************************)
(* Market-data gateway of the multichain wallet.                           *)
(*                                                                         *)
(* Two versions of the CoinGecko proxy route are in the repository:        *)
(*   - src/next.config.js:274-561, the route with the Bottleneck limiter   *)
(*     and retryWithBackoff (specification Spec);                          *)
(*   - src/app/api/coingecko/[...path]/route.ts, the plain route           *)
(*     (specification SpecRoute).                                          *)
(* A request handler runs without interruption between two await points,   *)
(* so every action below is the code between two awaits.                   *)
(***************************************************************************)
EXTENDS Integers, Sequences, FiniteSets, TLC

(***************************************************************************)
(* Bounds of the model.                                                    *)
(***************************************************************************)
\* The per-minute limit N of the per-client limiter: the `limit` parameter of
\* isIpRateLimited (default 20) and RATE_LIMIT of route.ts (50).  The limiter's
\* code is parametric in it; the model is checked for small N.
PerMinuteLimit == 2
\* Size of Bottleneck's reservoir (reservoir / reservoirRefreshAmount, 30 in
\* the code), checked for small sizes.
ReservoirSize == 2
\* The clock stops after this many per-client windows.
MaxWindows == 1
\* The UTXO provider returns at most this many UTXOs.
MaxUtxos == 2
\* The store keeps at most this many transaction records.
MaxTransactions == 2
\* The store keeps at most this many wallets.
MaxWallets == 2
\* The token list holds at most this many tokens.
MaxTokens == 2
\* The clock of the wallet store stops at this instant.
MaxStoreNow == 1

(***************************************************************************)
(* Program constants.                                                      *)
(***************************************************************************)
WindowMs == 60000
reservoirRefreshInterval == 60000
maxConcurrent == 1
maxRetries == 5
initialDelay == 1000
BackoffCapMs == 30000
JitterMs == 1000
DustLimit == 546
InputBytes == 148
OutputBytes == 34
OverheadBytes == 10

limit == PerMinuteLimit
RATE_LIMIT == PerMinuteLimit
reservoirRefreshAmount == ReservoirSize

MaxNow == MaxWindows * (WindowMs + 1)

Reqs == {"r1", "r2"}
Ips == {"10.0.0.1", "10.0.0.2"}

(***************************************************************************)
(* Endpoints are strings, modelled as sequences of characters.             *)
(***************************************************************************)
allowedEndpoints ==
    { <<"s", "i", "m", "p", "l", "e", "/", "p", "r", "i", "c", "e">>,
      <<"c", "o", "i", "n", "s", "/", "m", "a", "r", "k", "e", "t", "s">>,
      <<"c", "o", "i", "n", "s", "/", "l", "i", "s", "t">>,
      <<"s", "e", "a", "r", "c", "h">>,
      <<"p", "i", "n", "g">>,
      <<"g", "l", "o", "b", "a", "l">>,
      <<"c", "o", "i", "n", "s", "/", "b", "i", "t", "c", "o", "i", "n">>,
      <<"c", "o", "i", "n", "s", "/", "e", "t", "h", "e", "r", "e", "u", "m">>,
      <<"c", "o", "i", "n", "s", "/", "t", "e", "t", "h", "e", "r">>,
      <<"c", "o", "i", "n", "s", "/", "b", "i", "n", "a", "n", "c", "e", "c", "o", "i", "n">>,
      <<"c", "o", "i", "n", "s", "/", "s", "o", "l", "a", "n", "a">>,
      <<"c", "o", "i", "n", "s", "/", "c", "a", "r", "d", "a", "n", "o">>,
      <<"c", "o", "i", "n", "s", "/", "p", "o", "l", "k", "a", "d", "o", "t">>,
      <<"c", "o", "i", "n", "s", "/", "a", "v", "a", "l", "a", "n", "c", "h", "e", "-", "2">>,
      <<"c", "o", "i", "n", "s", "/", "m", "a", "t", "i", "c", "-", "n", "e", "t", "w", "o", "r", "k">>,
      <<"c", "o", "i", "n", "s", "/", "f", "a", "n", "t", "o", "m">>,
      <<"t", "r", "e", "n", "d", "i", "n", "g">>,
      <<"e", "x", "c", "h", "a", "n", "g", "e", "_", "r", "a", "t", "e", "s">> }

\* String.prototype.startsWith
startsWith(s, prefix) ==
    /\ Len(prefix) <= Len(s)
    /\ SubSeq(s, 1, Len(prefix)) = prefix

\* A plausible slip: the prefix test the wrong way round.
isAllowed_reversed(endpoint) ==
    \E allowed \in allowedEndpoints : startsWith(allowed, endpoint)

\* allowedEndpoints.some(allowed => endpoint.startsWith(allowed))
isAllowed(endpoint) ==
    \E allowed \in allowedEndpoints : startsWith(endpoint, allowed)

\* The endpoints the requests of the model ask for.
EmptyEndpoint == <<>>
AllowedInputs ==
    { <<"p", "i", "n", "g">>,
      <<"c", "o", "i", "n", "s", "/", "b", "i", "t", "c", "o", "i", "n", "-", "c", "a", "s", "h">> }
DisallowedInputs ==
    { <<"c", "o", "i", "n", "s">>,
      <<"a", "d", "m", "i", "n">> }
Endpoints == {EmptyEndpoint} \cup AllowedInputs \cup DisallowedInputs

(***************************************************************************)
(* The per-client limiter.                                                 *)
(***************************************************************************)
NoEntry == [count |-> 0, resetTime |-> -1]

\* A plausible slip: `>` for `>=` lets one request too many through.
isIpRateLimited_offByOne(map, ip, lim, t) ==
    LET userRequest == map[ip] IN
    IF userRequest = NoEntry \/ t > userRequest.resetTime
    THEN [limited |-> FALSE,
          map |-> [map EXCEPT ![ip] = [count |-> 1, resetTime |-> t + WindowMs]]]
    ELSE IF userRequest.count > lim
    THEN [limited |-> TRUE, map |-> map]
    ELSE [limited |-> FALSE,
          map |-> [map EXCEPT ![ip].count = userRequest.count + 1]]

\* A plausible slip: the window ends when it starts.
isIpRateLimited_noWindow(map, ip, lim, t) ==
    LET userRequest == map[ip] IN
    IF userRequest = NoEntry \/ t > userRequest.resetTime
    THEN [limited |-> FALSE,
          map |-> [map EXCEPT ![ip] = [count |-> 1, resetTime |-> t]]]
    ELSE IF userRequest.count >= lim
    THEN [limited |-> TRUE, map |-> map]
    ELSE [limited |-> FALSE,
          map |-> [map EXCEPT ![ip].count = userRequest.count + 1]]

\* isIpRateLimited(ip, limit) at time t = Date.now(): the answer and the map
\* after the call.  The function has no await: check and increment are one step.
isIpRateLimited(map, ip, lim, t) ==
    LET userRequest == map[ip] IN
    IF userRequest = NoEntry \/ t > userRequest.resetTime
    THEN [limited |-> FALSE,
          map |-> [map EXCEPT ![ip] = [count |-> 1, resetTime |-> t + WindowMs]]]
    ELSE IF userRequest.count >= lim
    THEN [limited |-> TRUE, map |-> map]
    ELSE [limited |-> FALSE,
          map |-> [map EXCEPT ![ip].count = userRequest.count + 1]]

(***************************************************************************)
(* Upstream outcomes, errors and responses.                                *)
(***************************************************************************)
NoHeader == "none"

HttpOutcome(s, h) == [kind |-> "http", status |-> s, retryAfter |-> h]
AbortOutcome == [kind |-> "abort", status |-> 0, retryAfter |-> NoHeader]
NetworkOutcome == [kind |-> "network", status |-> 0, retryAfter |-> NoHeader]

\* What one upstream fetch can end with: a response, the 15 s abort, or a
\* network failure.
\* A Retry-After header in its HTTP-date form.
DateHeader == "Wed, 21 Oct 2015 07:28:00 GMT"

UpstreamOutcomes ==
    { HttpOutcome(200, NoHeader),
      HttpOutcome(404, NoHeader),
      HttpOutcome(429, NoHeader),
      HttpOutcome(429, "30"),
      HttpOutcome(500, NoHeader),
      AbortOutcome,
      NetworkOutcome }

\* The outcomes that tell the backoff delays apart: success, and failures
\* without Retry-After, with its delta-seconds form and with its date form.
BackoffOutcomes ==
    { HttpOutcome(200, NoHeader),
      HttpOutcome(429, NoHeader),
      HttpOutcome(429, "30"),
      HttpOutcome(429, DateHeader),
      HttpOutcome(500, NoHeader) }

\* Response.ok
resOk(o) == o.kind = "http" /\ o.status >= 200 /\ o.status <= 299

\* An error object: status 0 stands for an error without `response`.
NoError == [message |-> "", status |-> 0, retryAfter |-> NoHeader]

\* The error the fetch callback throws for a failed fetch.
fetchError(o) ==
    IF o.kind = "http"
    THEN [message |-> "HTTP", status |-> o.status, retryAfter |-> o.retryAfter]
    ELSE IF o.kind = "abort"
    THEN [message |-> "Request timeout", status |-> 504, retryAfter |-> NoHeader]
    ELSE [message |-> "fetch failed", status |-> 0, retryAfter |-> NoHeader]

\* A plausible slip: the exception for 429 forgotten.
nonRetryable_no429(error) ==
    error.status >= 400 /\ error.status < 500

\* retryWithBackoff: "Don't retry on client errors (except rate limit)"
nonRetryable(error) ==
    error.status >= 400 /\ error.status < 500 /\ error.status # 429

\* A plausible slip: the first error is kept instead of the latest.
catchAssign_first(lastError, error) ==
    IF lastError = NoError THEN error ELSE lastError

\* retryWithBackoff: lastError = error
catchAssign(lastError, error) == error

NoResponse == [status |-> 0, retryAfter |-> NoHeader, error |-> ""]

\* The catch block of GET: the response for a thrown error.
errorResponse(error) ==
    IF error.status = 429
    THEN [status |-> 429,
          retryAfter |-> IF error.retryAfter # NoHeader THEN error.retryAfter ELSE "60",
          error |-> "CoinGecko rate limit exceeded"]
    ELSE IF error.status = 504 \/ error.message = "Request timeout"
    THEN [status |-> 504, retryAfter |-> NoHeader, error |-> "Request timeout"]
    ELSE [status |-> 500, retryAfter |-> NoHeader, error |-> "Internal server error"]

(***************************************************************************)
(* The backoff delay of retryWithBackoff.  A JavaScript number is a record *)
(* that says whether it is NaN.                                            *)
(***************************************************************************)
Num(v) == [nan |-> FALSE, value |-> v]
NaN == [nan |-> TRUE, value |-> 0]

\* x * n
times(x, n) == IF x.nan THEN NaN ELSE Num(x.value * n)

\* The characters of the header values of the model.
HeaderText(h) ==
    CASE h = "30" -> <<"3", "0">>
      [] h = "60" -> <<"6", "0">>
      [] h = DateHeader ->
            <<"W", "e", "d", ",", " ", "2", "1", " ", "O", "c", "t", " ",
              "2", "0", "1", "5", " ", "0", "7", ":", "2", "8", ":", "0", "0",
              " ", "G", "M", "T">>
      [] OTHER -> <<>>

Digits == <<"0", "1", "2", "3", "4", "5", "6", "7", "8", "9">>
isDigit(c) == \E i \in 1..10 : Digits[i] = c
digitValue(c) == (CHOOSE i \in 1..10 : Digits[i] = c) - 1

\* The value of the longest prefix of digits of s, after the digits acc.
RECURSIVE digitsPrefix(_, _)
digitsPrefix(s, acc) ==
    IF s # <<>> /\ isDigit(Head(s))
    THEN digitsPrefix(Tail(s), 10 * acc + digitValue(Head(s)))
    ELSE acc

RECURSIVE trimStart(_)
trimStart(s) == IF s # <<>> /\ Head(s) = " " THEN trimStart(Tail(s)) ELSE s

\* parseInt(string): white space, a sign, then digits up to the first other
\* character; NaN when no digit is there.
parseInt(s) ==
    LET t == trimStart(s)
        negative == t # <<>> /\ Head(t) = "-"
        u == IF t # <<>> /\ Head(t) \in {"-", "+"} THEN Tail(t) ELSE t
    IN  IF u = <<>> \/ ~isDigit(Head(u)) THEN NaN
        ELSE Num((IF negative THEN -1 ELSE 1) * digitsPrefix(u, 0))

\* Math.pow(2, attempt)
RECURSIVE pow2(_)
pow2(n) == IF n = 0 THEN 1 ELSE 2 * pow2(n - 1)

min(a, b) == IF a <= b THEN a ELSE b

\* A plausible slip: a cap of 3 seconds for 30.
baseDelay_cap3000(attempt) == min(initialDelay * pow2(attempt), 3000)

\* const baseDelay = Math.min(initialDelay * Math.pow(2, attempt), 30000)
baseDelay(attempt) == min(initialDelay * pow2(attempt), BackoffCapMs)

\* Math.random() * 1000 lies in [0, 1000): the least value and the greatest
\* whole number of milliseconds stand for it.
Jitters == {0, JitterMs - 1}

\* finalDelay after the failure of attempt `attempt` whose error carries the
\* header retryAfter: a header that is there (a string that is not empty)
\* replaces the computed delay.
finalDelay(attempt, jitter, retryAfter) ==
    LET delay == baseDelay(attempt) + jitter IN
    IF retryAfter # NoHeader /\ HeaderText(retryAfter) # <<>>
    THEN times(parseInt(HeaderText(retryAfter)), 1000)
    ELSE Num(delay)

\* setTimeout(resolve, finalDelay): a delay that is not a number of at least
\* one millisecond counts as one millisecond.
timeoutMs(d) == IF d.nan \/ d.value < 1 THEN 1 ELSE d.value

(***************************************************************************)
(* State.                                                                  *)
(***************************************************************************)
VARIABLES
    now,                  \* Date.now(), in ms since the process started
    ipRateLimits,         \* next.config.js: ip -> {count, resetTime}
    requestCounts,        \* route.ts: key -> {count, resetTime}
    reservoir,            \* Bottleneck: tokens left
    lastReservoirRefresh, \* Bottleneck: time of the last refill
    running,              \* Bottleneck: jobs registered and not yet done
    queue,                \* Bottleneck: jobs waiting, in order of schedule()
    req,                  \* the request handlers
    admitLog,             \* history: times of the admissions of the last 60 s, per client
    arrivalOrder,         \* history: scheduled requests whose first fetch has not started
    upstreamCalls,        \* history: upstream fetches since the last refill (see Counted)
    transactions,         \* walletStore.ts: state.transactions, newest first
    send,                 \* the invocation of the store's sendTransaction
    balance,              \* per chain, the last call of the service's getBalance
    localStorage,         \* crypto.ts: the items user_pin, pin_attempts, pin_lockout
    pinCalls,             \* the calls of PINManager.verifyPIN and PINManager.setPIN
    pinHistory,           \* history: the fifth failure in a row, the last completed call
    wallets,              \* walletStore.ts: state.wallets
    activeWallet,         \* walletStore.ts: state.activeWallet
    isLocked,             \* walletStore.ts: state.isLocked
    isConnected,          \* walletStore.ts: state.isConnected
    selectedChain,        \* walletStore.ts: state.selectedChain, by its id
    tokenList,            \* walletStore.ts: state.tokens
    calls                 \* the calls of the store's asynchronous actions

vars == <<now, ipRateLimits, requestCounts, reservoir, lastReservoirRefresh,
          running, queue, req, admitLog, arrivalOrder, upstreamCalls,
          transactions, send, balance, localStorage, pinCalls, pinHistory,
          wallets, activeWallet, isLocked, isConnected, selectedChain,
          tokenList, calls>>

gatewayVars == <<now, ipRateLimits, requestCounts, reservoir, lastReservoirRefresh,
                 running, queue, req, admitLog, arrivalOrder, upstreamCalls>>

pinVars == <<localStorage, pinCalls, pinHistory>>

storeVars == <<wallets, activeWallet, isLocked, isConnected, selectedChain,
              tokenList, calls>>

walletVars == <<transactions, send, balance, pinVars, storeVars>>

\* Everything of the gateway but the clock.
clockless == <<ipRateLimits, requestCounts, reservoir, lastReservoirRefresh,
               running, queue, req, admitLog, arrivalOrder, upstreamCalls>>

limiterVars == <<reservoir, lastReservoirRefresh, running, queue, arrivalOrder,
                 upstreamCalls>>

IdleReq ==
    [pc |-> "idle", ip |-> "", endpoint |-> EmptyEndpoint, attempt |-> 0,
     lastError |-> NoError, calls |-> 0, lastAttempt |-> NoError,
     sleeps |-> <<>>, limited |-> FALSE, resp |-> NoResponse]

(***************************************************************************)
(* Wallets (walletStore.ts, createWallet and importWallet).  The phrase is *)
(* the seed phrase; what is derived from it is named by its derivation.    *)
(***************************************************************************)
\* The seed phrases of the wallets.
Phrases == {"seed one", "seed two"}

\* The empty string, as a text that is encrypted or decrypted.
NoText == [keys |-> "", of |-> ""]

\* What decrypting with another key than the one used to encrypt gives.
GarbageText == [keys |-> "garbage", of |-> ""]

\* No address.
NoAddress == [family |-> "", of |-> ""]

\* The derivation a chain uses: m/44'/60'/0'/0/0 for the EVM chains,
\* m/44'/501'/0'/0' for Solana, m/84'/0'/0'/0/0 for Bitcoin.
familyOf(chain) == IF chain \in {"solana", "bitcoin"} THEN chain ELSE "evm"

\* The address and the private key derived from a phrase for a chain.
deriveAddress(phrase, chain) == [family |-> familyOf(chain), of |-> phrase]
deriveKey(phrase, chain) == [keys |-> familyOf(chain), of |-> phrase]

\* JSON.stringify(privateKeys): the keys of all chains in one text.
allKeys(phrase) == [keys |-> "JSON of the keys of all chains", of |-> phrase]

\* encrypt(text) with the key of getEncryptionKey().
encrypt(text) == [cipher |-> "xor", text |-> text]

\* activeWallet: null.
NoWallet == [id |-> -1, address |-> NoAddress, privateKey |-> encrypt(NoText),
             type |-> "none"]

\* The wallet object createWallet builds: the EVM address is its only
\* address, the JSON of all keys its private key.
generatedWallet(id, phrase) ==
    [id |-> id, address |-> deriveAddress(phrase, "ethereum"),
     privateKey |-> encrypt(allKeys(phrase)), type |-> "generated"]

\* The wallet object importWallet builds from a phrase or from an EVM key.
importedWallet(id, phrase) ==
    [id |-> id, address |-> deriveAddress(phrase, "ethereum"),
     privateKey |-> encrypt(deriveKey(phrase, "ethereum")), type |-> "imported"]

\* A balance: the text the service returned, for which address and on which
\* chain; '0' is what a service returns when its query failed.
ZeroBalance == [amount |-> "0", of |-> NoAddress, on |-> ""]

\* balanceUSD: parseFloat(balance) * price; 0 until it is computed.
ZeroUSD == [of |-> ZeroBalance, price |-> 0]

\* The callers of the store's actions: their calls can overlap.
Callers == {"a1", "a2"}

\* No call.  op is the action called; present is history, whether addToken
\* found the token in the list; wallet is the wallet being created; address
\* and chain are activeWallet.address and selectedChain as updateTokenBalance
\* read them when it started; rest is what importTokensByAddress has left;
\* stale is history, whether the caller's last updateTokenBalance wrote a
\* token's balance when the active wallet or the selected chain was no longer
\* the one it had read.
IdleCall ==
    [pc |-> "idle", op |-> "", present |-> FALSE, stale |-> FALSE, wallet |-> NoWallet,
     tokenAddress |-> "", chainId |-> 0, address |-> NoAddress, chain |-> "",
     balance |-> ZeroBalance, rest |-> <<>>]

\* No invocation of sendTransaction yet.  decrypt and key are history: how
\* decrypt ended and the text it returned, which is passed to the service.
IdleSend ==
    [pc |-> "idle", chain |-> "", token |-> FALSE, toValid |-> TRUE,
     utxos |-> <<>>, amountSats |-> 0, feeRate |-> NaN, inputCount |-> 0,
     inputValue |-> 0, outputs |-> <<>>, fee |-> NaN, signCalls |-> 0,
     broadcasts |-> 0, steps |-> <<>>, error |-> "", hash |-> "",
     before |-> <<>>, wallet |-> NoWallet, decrypt |-> "", key |-> NoText]

\* No call of getBalance yet.
NoBalance == [answer |-> "", threw |-> FALSE, result |-> ""]

(***************************************************************************)
(* PINManager (crypto.ts): what localStorage holds and who is calling.     *)
(***************************************************************************)
\* private static readonly MAX_ATTEMPTS = 5
MAX_ATTEMPTS == 5

\* private static readonly LOCKOUT_DURATION = 30 * 60 * 1000
LOCKOUT_DURATION == 1800000

\* localStorage.getItem(key) of a key that is not stored is null; a stored
\* number n is <<n>>.
NoItem == <<>>

\* The callers of PINManager: their calls can overlap, since verifyPIN and
\* setPIN await hashPassword.
PinCallers == {"c1", "c2"}

\* The PINs entered.
Pins == {"123456", "654321"}

\* Nothing is stored before the first setPIN.
EmptyStorage == [user_pin |-> NoItem, pin_attempts |-> NoItem, pin_lockout |-> NoItem]

\* History: no call has completed.  locked tells whether a lockout was in
\* force when the call completed.
NoCall == [op |-> "", pin |-> "", locked |-> FALSE]

\* No call yet.  turn is history, it alternates between the calls of a caller;
\* afterSetPIN is history: "set" when the call that had completed last when
\* this call started was setPIN of the same PIN, "unlocked" when moreover a
\* lockout was in force when that setPIN completed.
IdlePinCall ==
    [pc |-> "idle", op |-> "", pin |-> "", storedPIN |-> NoItem, result |-> "",
     turn |-> 0, afterSetPIN |-> ""]

Init ==
    /\ localStorage = EmptyStorage
    /\ pinCalls = [c \in PinCallers |-> IdlePinCall]
    /\ pinHistory = [since |-> NoItem, last |-> NoCall]
    /\ wallets = <<>>
    /\ activeWallet = NoWallet
    /\ isLocked = TRUE
    /\ isConnected = FALSE
    /\ selectedChain = "ethereum"
    /\ tokenList = <<>>
    /\ calls = [c \in Callers |-> IdleCall]
    /\ transactions = <<>>
    /\ send = IdleSend
    /\ balance = [chain \in {"solana", "bitcoin", "ethereum"} |-> NoBalance]
    /\ now = 0
    /\ ipRateLimits = [ip \in Ips |-> NoEntry]
    /\ requestCounts = [ip \in Ips |-> NoEntry]
    /\ reservoir = ReservoirSize
    /\ lastReservoirRefresh = 0
    /\ running = 0
    /\ queue = <<>>
    /\ req = [r \in Reqs |-> IdleReq]
    /\ admitLog = [ip \in Ips |-> <<>>]
    /\ arrivalOrder = <<>>
    /\ upstreamCalls = 0

Remove(s, x) == SelectSeq(s, LAMBDA y : y # x)

\* A new request in slot r: the locals of the handler start afresh.
NewReq(ip, endpoint) == [IdleReq EXCEPT !.ip = ip, !.endpoint = endpoint]

Respond(rq, response) == [rq EXCEPT !.pc = "done", !.resp = response]

(***************************************************************************)
(* next.config.js: GET up to its first await.                              *)
(***************************************************************************)
\* A plausible slip: the endpoint is validated before the client is counted.
GET_validateFirst(r, ip, endpoint) ==
    /\ UNCHANGED walletVars
    /\ req[r].pc \in {"idle", "done"}
    /\ LET rejected == endpoint = EmptyEndpoint \/ ~isAllowed(endpoint)
           check == IF rejected THEN [limited |-> FALSE, map |-> ipRateLimits]
                    ELSE isIpRateLimited(ipRateLimits, ip, limit, now)
           rq == NewReq(ip, endpoint)
       IN  /\ ipRateLimits' = check.map
           /\ admitLog' = IF check.limited \/ rejected THEN admitLog
                          ELSE [admitLog EXCEPT ![ip] = Append(@, now)]
           /\ IF rejected
              THEN /\ req' = [req EXCEPT ![r] =
                        Respond(rq, [status |-> IF endpoint = EmptyEndpoint
                                                THEN 400 ELSE 403,
                                     retryAfter |-> NoHeader,
                                     error |-> "Endpoint rejected"])]
                   /\ UNCHANGED <<queue, arrivalOrder>>
              ELSE IF check.limited
              THEN /\ req' = [req EXCEPT ![r] =
                        Respond([rq EXCEPT !.limited = TRUE],
                                [status |-> 429, retryAfter |-> "60",
                                 error |-> "Rate limit exceeded"])]
                   /\ UNCHANGED <<queue, arrivalOrder>>
              ELSE /\ req' = [req EXCEPT ![r] = [rq EXCEPT !.pc = "queued"]]
                   /\ queue' = Append(queue, r)
                   /\ arrivalOrder' = Append(arrivalOrder, r)
    /\ UNCHANGED <<now, requestCounts, reservoir, lastReservoirRefresh, running,
                   upstreamCalls>>

GET(r, ip, endpoint) ==
    /\ UNCHANGED walletVars
    /\ req[r].pc \in {"idle", "done"}
    /\ LET check == isIpRateLimited(ipRateLimits, ip, limit, now)
           rq == NewReq(ip, endpoint)
       IN  /\ ipRateLimits' = check.map
           /\ admitLog' = IF check.limited THEN admitLog
                          ELSE [admitLog EXCEPT ![ip] = Append(@, now)]
           /\ IF check.limited
              THEN /\ req' = [req EXCEPT ![r] =
                        Respond([rq EXCEPT !.limited = TRUE],
                                [status |-> 429, retryAfter |-> "60",
                                 error |-> "Rate limit exceeded"])]
                   /\ UNCHANGED <<queue, arrivalOrder>>
              ELSE IF endpoint = EmptyEndpoint
              THEN /\ req' = [req EXCEPT ![r] =
                        Respond(rq, [status |-> 400, retryAfter |-> NoHeader,
                                     error |-> "Missing endpoint"])]
                   /\ UNCHANGED <<queue, arrivalOrder>>
              ELSE IF ~isAllowed(endpoint)
              THEN /\ req' = [req EXCEPT ![r] =
                        Respond(rq, [status |-> 403, retryAfter |-> NoHeader,
                                     error |-> "Endpoint not allowed"])]
                   /\ UNCHANGED <<queue, arrivalOrder>>
              ELSE \* await limiter.schedule(...)
                   /\ req' = [req EXCEPT ![r] = [rq EXCEPT !.pc = "queued"]]
                   /\ queue' = Append(queue, r)
                   /\ arrivalOrder' = Append(arrivalOrder, r)
    /\ UNCHANGED <<now, requestCounts, reservoir, lastReservoirRefresh, running,
                   upstreamCalls>>

(***************************************************************************)
(* Bottleneck (maxConcurrent 1, reservoir refilled every 60 s): a job is   *)
(* taken from the queue when a slot is free and a token is left.           *)
(***************************************************************************)
\* A plausible slip: the limiter without its concurrency cap.
conditionsCheck_uncapped(run, tokens) == tokens >= 1

\* A plausible slip: `<` for `<=` leaves no slot at all.
conditionsCheck_noSlot(run, tokens) ==
    /\ run + 1 < maxConcurrent
    /\ tokens >= 1

\* Bottleneck's check before it registers a job of weight 1.
conditionsCheck(run, tokens) ==
    /\ run + 1 <= maxConcurrent
    /\ tokens >= 1

\* A plausible slip: the newest job first.
nextJob_newest(q) == q[Len(q)]

\* Jobs of one priority leave the queue first in, first out.
nextJob(q) == Head(q)

Launch ==
    /\ UNCHANGED walletVars
    /\ queue # <<>>
    /\ conditionsCheck(running, reservoir)
    /\ LET r == nextJob(queue) IN
         /\ queue' = Remove(queue, r)
         /\ req' = [req EXCEPT ![r].pc = "registered"]
    /\ running' = running + 1
    /\ reservoir' = reservoir - 1
    /\ UNCHANGED <<now, ipRateLimits, requestCounts, lastReservoirRefresh,
                   admitLog, arrivalOrder, upstreamCalls>>

\* The heartbeat of the limiter refills the reservoir.
Refill ==
    /\ UNCHANGED walletVars
    /\ now >= lastReservoirRefresh + reservoirRefreshInterval
    /\ lastReservoirRefresh' = now
    /\ reservoir' = reservoirRefreshAmount
    /\ upstreamCalls' = 0
    /\ UNCHANGED <<now, ipRateLimits, requestCounts, running, queue, req,
                   admitLog, arrivalOrder>>

(***************************************************************************)
(* retryWithBackoff around the upstream fetch.                             *)
(***************************************************************************)
\* A plausible slip: `<=` for `<` in the loop condition.
loopContinues_inclusive(attempt) == attempt <= maxRetries

\* for (let attempt = 0; attempt < maxRetries; attempt++)
loopContinues(attempt) == attempt < maxRetries

\* if (attempt < maxRetries - 1): sleep before the next attempt
shouldSleep(attempt) == attempt < maxRetries - 1

\* One more upstream fetch since the last refill.  The count stops at one more
\* than the reservoir holds.
Counted(n) == IF n > reservoirRefreshAmount THEN n ELSE n + 1

\* fn(): the callback issues one upstream fetch.
CallFn(rq) == [rq EXCEPT !.pc = "fetching", !.calls = @ + 1]

\* retryWithBackoff has thrown: the job is over and GET's catch block answers.
Thrown(rq, error) == Respond(rq, errorResponse(error))

\* The limiter runs the job: retryWithBackoff starts and calls fn().
Execute(r) ==
    /\ UNCHANGED walletVars
    /\ req[r].pc = "registered"
    /\ req' = [req EXCEPT ![r] = CallFn([@ EXCEPT !.attempt = 0])]
    /\ arrivalOrder' = Remove(arrivalOrder, r)
    /\ upstreamCalls' = Counted(upstreamCalls)
    /\ UNCHANGED <<now, ipRateLimits, requestCounts, reservoir,
                   lastReservoirRefresh, running, queue, admitLog>>

\* The sleep before the next attempt: history of the request.
Slept(rq, error, jitter) ==
    [rq EXCEPT !.pc = "sleeping",
               !.sleeps = Append(@, [attempt |-> rq.attempt,
                                     retryAfter |-> error.retryAfter,
                                     finalDelay |-> finalDelay(rq.attempt, jitter,
                                                               error.retryAfter)])]

\* The fetch of request r settles with outcome o; jitter is the value of
\* Math.random() * 1000 if the loop sleeps.
FetchSettle(r, o, jitter) ==
    /\ UNCHANGED walletVars
    /\ req[r].pc = "fetching"
    /\ IF resOk(o)
       THEN \* return res; the job is done and GET awaits response.json()
            /\ req' = [req EXCEPT ![r].pc = "parsing", ![r].lastAttempt = NoError]
            /\ running' = running - 1
            /\ UNCHANGED upstreamCalls
       ELSE LET error == fetchError(o)
                rq == [req[r] EXCEPT !.lastError = catchAssign(@, error),
                                     !.lastAttempt = error]
            IN  IF nonRetryable(error)
                THEN /\ req' = [req EXCEPT ![r] = Thrown(rq, error)]
                     /\ running' = running - 1
                     /\ UNCHANGED upstreamCalls
                ELSE IF shouldSleep(rq.attempt)
                THEN /\ req' = [req EXCEPT ![r] = Slept(rq, error, jitter)]
                     /\ UNCHANGED <<running, upstreamCalls>>
                ELSE IF loopContinues(rq.attempt + 1)
                THEN /\ req' = [req EXCEPT ![r] =
                                  CallFn([rq EXCEPT !.attempt = @ + 1])]
                     /\ upstreamCalls' = Counted(upstreamCalls)
                     /\ UNCHANGED running
                ELSE /\ req' = [req EXCEPT ![r] =
                                  Thrown([rq EXCEPT !.attempt = @ + 1], rq.lastError)]
                     /\ running' = running - 1
                     /\ UNCHANGED upstreamCalls
    /\ UNCHANGED <<now, ipRateLimits, requestCounts, reservoir,
                   lastReservoirRefresh, queue, admitLog, arrivalOrder>>

\* The backoff delay is over: the loop goes to its next iteration.
Wake(r) ==
    /\ UNCHANGED walletVars
    /\ req[r].pc = "sleeping"
    /\ LET rq == [req[r] EXCEPT !.attempt = @ + 1] IN
         IF loopContinues(rq.attempt)
         THEN /\ req' = [req EXCEPT ![r] = CallFn(rq)]
              /\ upstreamCalls' = Counted(upstreamCalls)
              /\ UNCHANGED running
         ELSE /\ req' = [req EXCEPT ![r] = Thrown(rq, rq.lastError)]
              /\ running' = running - 1
              /\ UNCHANGED upstreamCalls
    /\ UNCHANGED <<now, ipRateLimits, requestCounts, reservoir,
                   lastReservoirRefresh, queue, admitLog, arrivalOrder>>

\* await response.json(): the body parses, or the parse throws.
ParseJson(r, parsed) ==
    /\ UNCHANGED walletVars
    /\ req[r].pc = "parsing"
    /\ req' = [req EXCEPT ![r] =
                 IF parsed
                 THEN Respond(@, [status |-> 200, retryAfter |-> NoHeader, error |-> ""])
                 ELSE Thrown(@, [message |-> "Unexpected token", status |-> 0,
                                 retryAfter |-> NoHeader])]
    /\ UNCHANGED <<now, ipRateLimits, requestCounts, admitLog, limiterVars>>

(***************************************************************************)
(* Time.  The clock jumps to the instants at which the limiters change     *)
(* their answer: the end of a client's window, the millisecond after it,   *)
(* and the time the next refill is due.                                    *)
(***************************************************************************)
WindowEnds(map) ==
    UNION { {map[ip].resetTime, map[ip].resetTime + 1} : ip \in {i \in Ips : map[i] # NoEntry} }

TickTargets ==
    WindowEnds(ipRateLimits) \cup WindowEnds(requestCounts)
        \cup {lastReservoirRefresh + reservoirRefreshInterval}

Tick(t) ==
    /\ UNCHANGED walletVars
    /\ t > now
    /\ t <= MaxNow
    /\ now' = t
    /\ admitLog' = [ip \in Ips |-> SelectSeq(admitLog[ip], LAMBDA a : a >= t - WindowMs)]
    /\ UNCHANGED <<ipRateLimits, requestCounts, req, limiterVars>>

\* The steps of the gateway for requests reqs of clients ips that ask for
\* endpoints, with an upstream whose fetches end in outcomes and whose bodies
\* parse as parses says, and with the values jitters of Math.random() * 1000.
Gateway(reqs, ips, endpoints, outcomes, parses, jitters) ==
    \/ \E r \in reqs, ip \in ips, endpoint \in endpoints : GET(r, ip, endpoint)
    \/ Launch
    \/ Refill
    \/ \E r \in reqs : Execute(r)
    \/ \E r \in reqs, o \in outcomes, jitter \in jitters : FetchSettle(r, o, jitter)
    \/ \E r \in reqs : Wake(r)
    \/ \E r \in reqs, parsed \in parses : ParseJson(r, parsed)
    \/ \E t \in TickTargets : Tick(t)

\* Concurrent requests behind the global limiter.
Next ==
    Gateway(Reqs, {"10.0.0.1"},
            {EmptyEndpoint,
             <<"c", "o", "i", "n", "s", "/", "b", "i", "t", "c", "o", "i", "n", "-", "c", "a", "s", "h">>,
             <<"c", "o", "i", "n", "s">>},
            {HttpOutcome(200, NoHeader), HttpOutcome(404, NoHeader),
             HttpOutcome(500, NoHeader)},
            BOOLEAN, {0})

Spec == Init /\ [][Next]_vars

\* Requests of two clients with a healthy upstream, for the claims about the
\* per-client limiter.
NextClients ==
    \/ \E r \in Reqs, ip \in Ips,
          endpoint \in {<<"p", "i", "n", "g">>, <<"c", "o", "i", "n", "s">>} :
          GET(r, ip, endpoint)
    \/ Launch
    \/ Refill
    \/ \E r \in Reqs : Execute(r)
    \/ \E r \in Reqs : FetchSettle(r, HttpOutcome(200, NoHeader), 0)
    \/ \E r \in Reqs : ParseJson(r, TRUE)
    \/ \E t \in TickTargets : Tick(t)

SpecClients == Init /\ [][NextClients]_vars

\* One request at a time against an upstream that answers in every way, for the
\* claims about retryWithBackoff.
NextRetry ==
    Gateway({"r1"}, {"10.0.0.1"}, {<<"p", "i", "n", "g">>}, UpstreamOutcomes, BOOLEAN,
            {0})

SpecRetry == Init /\ [][NextRetry]_vars

\* One request at a time against an upstream that fails with and without a
\* Retry-After header, for the claims about the backoff delays.
NextBackoff ==
    Gateway({"r1"}, {"10.0.0.1"}, {<<"p", "i", "n", "g">>}, BackoffOutcomes, {TRUE},
            Jitters)

SpecBackoff == Init /\ [][NextBackoff]_vars

\* The scheduler runs every continuation that is ready, every timer fires,
\* every upstream fetch settles (by a response, a failure or the 15 s abort),
\* and time passes.
Fairness ==
    /\ WF_vars(Launch)
    /\ WF_vars(Refill)
    /\ WF_vars(\E t \in TickTargets : Tick(t))
    /\ \A r \in Reqs :
          /\ WF_vars(Execute(r))
          /\ WF_vars(\E o \in UpstreamOutcomes, jitter \in Jitters : FetchSettle(r, o, jitter))
          /\ WF_vars(Wake(r))
          /\ WF_vars(\E parsed \in BOOLEAN : ParseJson(r, parsed))

SpecLive == Spec /\ Fairness

(***************************************************************************)
(* route.ts: the plain route, without limiter and retries.                 *)
(***************************************************************************)
\* route.ts lists the same endpoints but the last two.
routeAllowedEndpoints ==
    allowedEndpoints \ { <<"t", "r", "e", "n", "d", "i", "n", "g">>,
                         <<"e", "x", "c", "h", "a", "n", "g", "e", "_", "r", "a", "t", "e", "s">> }

routeIsAllowed(endpoint) ==
    \E allowed \in routeAllowedEndpoints : startsWith(endpoint, allowed)

\* isRateLimited(key): the code of isIpRateLimited with the limit RATE_LIMIT.
isRateLimited(map, key, t) == isIpRateLimited(map, key, RATE_LIMIT, t)

\* The answer of route.ts to a settled fetch that is not ok.
routeFailure(o) ==
    IF o.kind = "http" /\ o.status = 429
    THEN [status |-> 429,
          retryAfter |-> IF o.retryAfter # NoHeader THEN o.retryAfter ELSE "60",
          error |-> "CoinGecko rate limit exceeded"]
    ELSE IF o.kind = "http"
    THEN [status |-> o.status, retryAfter |-> NoHeader, error |-> "CoinGecko API error"]
    ELSE IF o.kind = "abort"
    THEN [status |-> 504, retryAfter |-> NoHeader, error |-> "Request timeout"]
    ELSE [status |-> 500, retryAfter |-> NoHeader, error |-> "Internal server error"]

\* GET of route.ts up to its first await, the upstream fetch.
RouteGET(r, ip, endpoint) ==
    /\ UNCHANGED walletVars
    /\ req[r].pc \in {"idle", "done"}
    /\ LET check == isRateLimited(requestCounts, ip, now)
           rq == NewReq(ip, endpoint)
       IN  /\ requestCounts' = check.map
           /\ req' = [req EXCEPT ![r] =
                IF check.limited
                THEN Respond([rq EXCEPT !.limited = TRUE],
                             [status |-> 429, retryAfter |-> NoHeader,
                              error |-> "Rate limit exceeded"])
                ELSE IF endpoint = EmptyEndpoint
                THEN Respond(rq, [status |-> 400, retryAfter |-> NoHeader,
                                  error |-> "Missing endpoint"])
                ELSE IF ~routeIsAllowed(endpoint)
                THEN Respond(rq, [status |-> 403, retryAfter |-> NoHeader,
                                  error |-> "Endpoint not allowed"])
                ELSE CallFn(rq)]
    /\ UNCHANGED <<now, ipRateLimits, admitLog, limiterVars>>

\* The fetch of route.ts settles.
RouteFetchSettle(r, o) ==
    /\ UNCHANGED walletVars
    /\ req[r].pc = "fetching"
    /\ req' = [req EXCEPT ![r] =
                 IF resOk(o) THEN [@ EXCEPT !.pc = "parsing"]
                 ELSE Respond(@, routeFailure(o))]
    /\ UNCHANGED <<now, ipRateLimits, requestCounts, admitLog, limiterVars>>

\* await response.json() of route.ts.
RouteParse(r, parsed) ==
    /\ UNCHANGED walletVars
    /\ req[r].pc = "parsing"
    /\ req' = [req EXCEPT ![r] =
                 IF parsed
                 THEN Respond(@, [status |-> 200, retryAfter |-> NoHeader, error |-> ""])
                 ELSE Respond(@, [status |-> 500, retryAfter |-> NoHeader,
                                  error |-> "Internal server error"])]
    /\ UNCHANGED <<now, ipRateLimits, requestCounts, admitLog, limiterVars>>

NextRoute ==
    \/ \E r \in Reqs, ip \in Ips, endpoint \in Endpoints : RouteGET(r, ip, endpoint)
    \/ \E r \in Reqs, o \in UpstreamOutcomes : RouteFetchSettle(r, o)
    \/ \E r \in Reqs, parsed \in BOOLEAN : RouteParse(r, parsed)
    \/ \E t \in TickTargets : Tick(t)

SpecRoute == Init /\ [][NextRoute]_vars

(***************************************************************************)
(* The wallet: the store's sendTransaction (walletStore.ts) and the chain  *)
(* services it calls: BitcoinService (utils.ts), SolanaService (solana.ts) *)
(* and Web3Service (web3.ts).  One invocation runs at a time; an action is *)
(* the code between two awaits.                                            *)
(***************************************************************************)
Chains == {"solana", "bitcoin", "ethereum"}

\* What the UTXO provider holds for the sender: lists of at most MaxUtxos values.
UtxoValues == {500, 1192, 1738}
UtxoLists == UNION { [1..n -> UtxoValues] : n \in 0..MaxUtxos }

\* Math.floor(parseFloat(amount) * 100000000) of the amounts sent.
Amounts == {999, 1000}

\* fees.fastestFee of a well-formed answer of the fee service, in sat/vB.
FeeRates == {1, 2}

\* x * y
product(x, y) == IF x.nan \/ y.nan THEN NaN ELSE Num(x.value * y.value)

\* x - y
minus(x, y) == IF x.nan \/ y.nan THEN NaN ELSE Num(x.value - y.value)

\* x > n
greater(x, n) == ~x.nan /\ x.value > n

RECURSIVE SumSeq(_)
SumSeq(q) == IF q = <<>> THEN 0 ELSE Head(q) + SumSeq(Tail(q))

\* The sum of the values of the outputs of the PSBT; NaN does not occur there.
RECURSIVE OutputTotal(_)
OutputTotal(outs) ==
    IF outs = <<>> THEN 0 ELSE Head(outs).value.value + OutputTotal(Tail(outs))

\* History: a step of the send and whether it succeeded.
Step(s, step, ok) == [s EXCEPT !.steps = Append(@, [step |-> step, ok |-> ok])]

\* A plausible slip: a catch block that logs the error and goes on.
Throw_swallowed(s, error) == [s EXCEPT !.error = error]

\* `throw error`: the service's catch block rethrows, the store's catch block
\* rethrows, the promise of sendTransaction rejects.
Throw(s, error) == [s EXCEPT !.pc = "rejected", !.error = error]

\* The service returned txHash: the store adds the record and returns the hash.
Return(s, txHash) == [s EXCEPT !.pc = "resolved", !.hash = txHash]

\* A plausible slip: the broadcast is tried again when it fails.
broadcastFailed_retry(s, error) ==
    [s EXCEPT !.broadcasts = @ + 1, !.error = error]

\* The broadcast call failed: the error is thrown, the broadcast is not repeated.
broadcastFailed(s, error) == Throw(Step(s, "broadcast", FALSE), error)

\* The step of the invocation and what the store does when the service has
\* returned: state.transactions.unshift({hash: txHash, ..., status: 'pending'}).
Settle(s) ==
    /\ send' = s
    /\ transactions' =
          IF s.pc = "resolved"
          THEN <<[hash |-> s.hash, status |-> "pending"]>> \o transactions
          ELSE transactions
    /\ UNCHANGED balance
    /\ UNCHANGED <<pinVars, storeVars>>
    /\ UNCHANGED gatewayVars

\* sendTransaction(to, amount, token) of the store, up to `await decrypt(...)`.
StoreSendTransaction(chain, wallet, token, toValid, utxos, amountSats) ==
    /\ send.pc \in {"idle", "resolved", "rejected"}
    /\ Len(transactions) < MaxTransactions
    /\ LET hasWallet == wallet # NoWallet /\ wallet.privateKey # encrypt(NoText)
           s == [IdleSend EXCEPT !.chain = chain, !.token = token,
                                 !.wallet = wallet,
                                 !.toValid = toValid, !.utxos = utxos,
                                 !.amountSats = amountSats,
                                 !.before = transactions]
       IN  Settle(IF hasWallet THEN [s EXCEPT !.pc = "decrypt"]
                  ELSE Throw(s, "No active wallet"))

(***************************************************************************)
(* BitcoinService.sendTransaction                                          *)
(***************************************************************************)
\* A plausible slip: `>=` for `>` at the dust limit.
needsChange_inclusive(change) == ~change.nan /\ change.value >= DustLimit

\* if (change > 546)
needsChange(change) == greater(change, DustLimit)

\* const estimatedSize = psbt.inputCount * 148 + psbt.outputCount * 34 + 10
estimatedSize(inputCount, outputCount) ==
    inputCount * InputBytes + outputCount * OutputBytes + OverheadBytes

\* From the end of the loop to the POST of the transaction: the recipient's
\* output, the fee, the change output, the signatures, the serialisation.
\* psbt.addOutput throws for an address that is not valid;
\* psbt.extractTransaction throws when the outputs spend more than the inputs.
btcFinish(s) ==
    IF ~s.toValid THEN Throw(Step(s, "build", FALSE), "Invalid address")
    ELSE LET recipient == [address |-> "to", value |-> Num(s.amountSats)]
             fee == product(Num(estimatedSize(s.inputCount, 1)), s.feeRate)
             change == minus(minus(Num(s.inputValue), Num(s.amountSats)), fee)
             outputs == IF needsChange(change)
                        THEN <<recipient, [address |-> "from", value |-> change]>>
                        ELSE <<recipient>>
             built == [Step(s, "build", TRUE) EXCEPT !.outputs = outputs, !.fee = fee]
             signed == [Step(built, "sign", TRUE) EXCEPT !.signCalls = @ + 1]
         IN  IF OutputTotal(outputs) > s.inputValue
             THEN Throw(Step(signed, "extract", FALSE),
                        "Outputs are spending more than Inputs")
             ELSE [signed EXCEPT !.pc = "btc_post", !.broadcasts = @ + 1]

\* for (const utxo of utxos) { if (inputValue >= amountSats) break; ... }
btcLoop(s) ==
    IF s.inputCount < Len(s.utxos) /\ ~(s.inputValue >= s.amountSats)
    THEN [s EXCEPT !.pc = "btc_hex"]
    ELSE btcFinish(s)

\* How decrypt can end: the stored text is no base64 ("corrupted"), the key
\* in localStorage is not the key the text was encrypted with ("wrongKey"),
\* or the text is decrypted ("plain").
DecryptOutcomes == {"corrupted", "wrongKey", "plain"}

\* xorDecrypt(encrypted, key): atob throws for what is no base64 and the catch
\* block returns ''; with another key the XOR gives another text; no error
\* is reported in either case.
xorDecrypt(encrypted, outcome) ==
    IF outcome = "corrupted" THEN NoText
    ELSE IF outcome = "wrongKey" THEN GarbageText
    ELSE encrypted.text

\* await decrypt(activeWallet.privateKey), then the call of the chain service up
\* to its first await.  The service is called with whatever decrypt returned.
\* A text that is no private key makes ECPair.fromPrivateKey,
\* Keypair.fromSecretKey, new ethers.Wallet throw (accepted is FALSE), and ''
\* is no private key; an address that is not valid makes new PublicKey(to)
\* throw.
Decrypt(outcome, accepted) ==
    /\ send.pc = "decrypt"
    /\ outcome = "corrupted" => ~accepted
    /\ LET key == xorDecrypt(send.wallet.privateKey, outcome)
           called == [send EXCEPT !.decrypt = outcome, !.key = key]
       IN Settle(
         IF ~accepted THEN Throw(Step(called, "resolve", FALSE), "invalid key")
         ELSE LET s == Step(called, "resolve", TRUE) IN
              IF send.chain = "bitcoin" THEN [s EXCEPT !.pc = "btc_utxos"]
              ELSE IF send.chain = "solana"
              THEN IF ~send.toValid THEN Throw(Step(s, "build", FALSE), "Invalid public key input")
                   ELSE IF send.token THEN [s EXCEPT !.pc = "sol_mint"]
                   ELSE [s EXCEPT !.pc = "sol_blockhash"]
              ELSE IF send.token THEN [s EXCEPT !.pc = "evm_decimals"]
                   ELSE IF ~send.toValid THEN Throw(Step(s, "build", FALSE), "invalid address")
                   ELSE [s EXCEPT !.pc = "evm_send"])

\* await this.getUTXOs(fromAddress): the provider's list, or [] when the query
\* failed; an empty list ends the send.
BtcGetUTXOs(ok) ==
    /\ send.pc = "btc_utxos"
    /\ LET list == IF ok THEN send.utxos ELSE <<>>
           s == [Step(send, "resolve", ok) EXCEPT !.utxos = list]
       IN  Settle(IF Len(list) = 0 THEN Throw(s, "No UTXOs available")
                  ELSE [s EXCEPT !.pc = "btc_fees"])

\* The answers of the fee service: no answer, or a body with fastestFee, or a
\* body without it.
FeeAnswers ==
    {[ok |-> FALSE, fastestFee |-> NaN], [ok |-> TRUE, fastestFee |-> NaN]}
        \cup {[ok |-> TRUE, fastestFee |-> Num(f)] : f \in FeeRates}

\* await fetch(fees/recommended); await feeResponse.json(); then the loop up to
\* its first fetch, or to the POST when the loop takes no input.
BtcFees(answer) ==
    /\ send.pc = "btc_fees"
    /\ Settle(IF ~answer.ok THEN Throw(Step(send, "resolve", FALSE), "fetch failed")
              ELSE btcLoop([Step(send, "resolve", TRUE) EXCEPT !.feeRate = answer.fastestFee]))

\* await fetch(tx hex); psbt.addInput; inputValue += utxo.value; the loop goes on.
BtcFetchHex(ok) ==
    /\ send.pc = "btc_hex"
    /\ Settle(IF ~ok THEN Throw(Step(send, "resolve", FALSE), "fetch failed")
              ELSE btcLoop([Step(send, "resolve", TRUE) EXCEPT
                               !.inputCount = @ + 1,
                               !.inputValue = @ + send.utxos[send.inputCount + 1]]))

\* The POST of the transaction settles.
BtcBroadcast(answer) ==
    /\ send.pc = "btc_post"
    /\ Settle(IF answer = "ok" THEN Return(Step(send, "broadcast", TRUE), "txid")
              ELSE IF answer = "notOk" THEN broadcastFailed(send, "Broadcast failed")
              ELSE broadcastFailed(send, "fetch failed"))

(***************************************************************************)
(* SolanaService.sendTransaction                                           *)
(***************************************************************************)
\* await getMint(...), the token accounts, the transfer instruction.
SolGetMint(ok) ==
    /\ send.pc = "sol_mint"
    /\ Settle(IF ~ok THEN Throw(Step(send, "resolve", FALSE), "getMint failed")
              ELSE [Step(send, "resolve", TRUE) EXCEPT !.pc = "sol_blockhash"])

\* await this.connection.getRecentBlockhash(); the transaction is complete and
\* sendAndConfirmTransaction is called.
SolBlockhash(ok) ==
    /\ send.pc = "sol_blockhash"
    /\ Settle(IF ~ok THEN Throw(Step(send, "resolve", FALSE), "getRecentBlockhash failed")
              ELSE [Step(Step(send, "resolve", TRUE), "build", TRUE) EXCEPT !.pc = "sol_send"])

\* sendAndConfirmTransaction signs, sends the transaction once and waits for
\* its confirmation; it throws when any of the three fails.
SendAndConfirmOutcomes == {"signFailed", "sendRejected", "sendTimeout", "confirmFailed", "ok"}

SolSendAndConfirm(outcome) ==
    /\ send.pc = "sol_send"
    /\ Settle(
         IF outcome = "signFailed" THEN Throw(Step(send, "sign", FALSE), "Signature verification failed")
         ELSE LET signed == [Step(send, "sign", TRUE) EXCEPT !.signCalls = @ + 1]
                  sent == [signed EXCEPT !.broadcasts = @ + 1]
              IN  IF outcome \in {"sendRejected", "sendTimeout"}
                  THEN broadcastFailed(sent, outcome)
                  ELSE IF outcome = "confirmFailed"
                  THEN Throw(Step(Step(sent, "broadcast", TRUE), "confirm", FALSE),
                             "Transaction was not confirmed")
                  ELSE Return(Step(Step(sent, "broadcast", TRUE), "confirm", TRUE),
                              "signature"))

(***************************************************************************)
(* Web3Service.sendTransaction                                             *)
(***************************************************************************)
\* await contract.decimals(); ethers.parseUnits; contract.transfer is called.
EvmDecimals(ok) ==
    /\ send.pc = "evm_decimals"
    /\ Settle(IF ~ok THEN Throw(Step(send, "resolve", FALSE), "decimals failed")
              ELSE IF ~send.toValid THEN Throw(Step(Step(send, "resolve", TRUE), "build", FALSE),
                                               "invalid address")
              ELSE [Step(send, "resolve", TRUE) EXCEPT !.pc = "evm_send"])

\* wallet.sendTransaction / contract.transfer of ethers: the transaction is
\* populated (nonce, gas, chain id), signed and broadcast once.
EvmSendOutcomes == {"populateFailed", "signFailed", "sendRejected", "sendTimeout", "ok"}

EvmSend(outcome) ==
    /\ send.pc = "evm_send"
    /\ Settle(
         IF outcome = "populateFailed" THEN Throw(Step(send, "resolve", FALSE), "could not populate")
         ELSE LET built == Step(Step(send, "resolve", TRUE), "build", TRUE) IN
              IF outcome = "signFailed" THEN Throw(Step(built, "sign", FALSE), "could not sign")
              ELSE LET signed == [Step(built, "sign", TRUE) EXCEPT !.signCalls = @ + 1]
                       sent == [signed EXCEPT !.broadcasts = @ + 1]
                   IN  IF outcome = "ok" THEN Return(Step(sent, "broadcast", TRUE), "tx.hash")
                       ELSE broadcastFailed(sent, outcome))

(***************************************************************************)
(* getBalance of the three chain services.                                 *)
(***************************************************************************)
\* What the balance query of a chain can end with.  For Bitcoin the body of the
\* answer is parsed by the service itself: it can be no JSON, JSON without
\* chain_stats, JSON whose chain_stats lacks the sums, or well-formed.  The
\* clients of Solana and of the EVM chains throw for an answer they cannot read
\* and for an address that is not valid.
BalanceAnswers(chain) ==
    IF chain = "bitcoin"
    THEN {"networkError", "notJson", "noChainStats", "noSums", "ok"}
    ELSE {"networkError", "malformed", "invalidAddress", "ok"}

\* The body of getBalance: what the try block returns, or that it throws.
\* undefined - undefined is NaN and (NaN / 100000000).toString() is "NaN".
tryGetBalance(chain, answer) ==
    IF answer = "ok" THEN [threw |-> FALSE, result |-> "balance"]
    ELSE IF chain = "bitcoin" /\ answer = "noSums" THEN [threw |-> FALSE, result |-> "NaN"]
    ELSE [threw |-> TRUE, result |-> ""]

\* getBalance(address): catch (error) { return '0' }
GetBalance(chain, answer) ==
    /\ LET try == tryGetBalance(chain, answer) IN
         balance' = [balance EXCEPT ![chain] =
                        [answer |-> answer, threw |-> FALSE,
                         result |-> IF try.threw THEN "0" ELSE try.result]]
    /\ UNCHANGED <<transactions, send>>
    /\ UNCHANGED <<pinVars, storeVars>>
    /\ UNCHANGED gatewayVars

\* activeWallet when sendTransaction is called: none, or an imported wallet.
SendWallets == {NoWallet, importedWallet(0, "seed one")}

NextWallet ==
    \/ \E wallet \in SendWallets, toValid \in BOOLEAN, utxos \in UtxoLists,
          amountSats \in Amounts :
          StoreSendTransaction("bitcoin", wallet, FALSE, toValid, utxos, amountSats)
    \/ \E chain \in Chains \ {"bitcoin"}, wallet \in SendWallets, token \in BOOLEAN,
          toValid \in BOOLEAN :
          StoreSendTransaction(chain, wallet, token, toValid, <<>>, 1000)
    \/ \E outcome \in DecryptOutcomes, accepted \in BOOLEAN : Decrypt(outcome, accepted)
    \/ \E ok \in BOOLEAN : BtcGetUTXOs(ok)
    \/ \E answer \in FeeAnswers : BtcFees(answer)
    \/ \E ok \in BOOLEAN : BtcFetchHex(ok)
    \/ \E answer \in {"ok", "notOk", "failed"} : BtcBroadcast(answer)
    \/ \E ok \in BOOLEAN : SolGetMint(ok)
    \/ \E ok \in BOOLEAN : SolBlockhash(ok)
    \/ \E outcome \in SendAndConfirmOutcomes : SolSendAndConfirm(outcome)
    \/ \E ok \in BOOLEAN : EvmDecimals(ok)
    \/ \E outcome \in EvmSendOutcomes : EvmSend(outcome)

SpecWallet == Init /\ [][NextWallet]_vars

\* The balance queries of the three chains.
NextBalance ==
    \E chain \in Chains : \E answer \in BalanceAnswers(chain) : GetBalance(chain, answer)

SpecBalance == Init /\ [][NextBalance]_vars

(***************************************************************************)
(* PINManager (crypto.ts).  verifyPIN and setPIN await hashPassword, so a  *)
(* call is two actions and the calls of two callers can overlap.  The      *)
(* items pin_attempts and pin_lockout are written with toString() and read *)
(* with parseInt(.., 10): for the non-negative integers written here that  *)
(* is the number itself, so the model keeps the numbers.                   *)
(***************************************************************************)
\* How many lockout periods the clock runs through.
MaxLockouts == 1

PinMaxNow == MaxLockouts * (LOCKOUT_DURATION + 1)

\* What the PIN actions leave alone.
besidesPin == <<clockless, transactions, send, balance, storeVars>>

\* hashPassword(pin): the digest of pin + 'ctc_wallet_salt'.
hashPassword(pin) == <<"SHA-256", pin, "ctc_wallet_salt">>

\* A plausible slip: the counter is removed, the lockout stays.
resetAttempts_keepLockout(ls) == [ls EXCEPT !.pin_attempts = NoItem]

\* resetAttempts(): removeItem(ATTEMPTS_KEY); removeItem(LOCKOUT_KEY)
resetAttempts(ls) == [ls EXCEPT !.pin_attempts = NoItem, !.pin_lockout = NoItem]

\* getAttempts(): attempts ? parseInt(attempts, 10) : 0
getAttempts(ls) == IF ls.pin_attempts = NoItem THEN 0 ELSE ls.pin_attempts[1]

\* incrementAttempts() at time t
incrementAttempts(ls, t) ==
    LET attempts == getAttempts(ls) + 1 IN
    [ls EXCEPT !.pin_attempts = <<attempts>>,
               !.pin_lockout = IF attempts >= MAX_ATTEMPTS
                               THEN <<t + LOCKOUT_DURATION>> ELSE @]

\* isLockedOut() at time t: its answer and what it leaves in localStorage.
isLockedOut(ls, t) ==
    IF ls.pin_lockout = NoItem THEN [locked |-> FALSE, storage |-> ls]
    ELSE IF t > ls.pin_lockout[1] THEN [locked |-> FALSE, storage |-> resetAttempts(ls)]
    ELSE [locked |-> TRUE, storage |-> ls]

\* History: the call that completes now; setPIN and removePIN are told apart.
Completed(op, pin) ==
    IF op \in {"setPIN", "removePIN"}
    THEN [op |-> op, pin |-> pin,
          locked |-> localStorage.pin_lockout # NoItem
                        /\ now <= localStorage.pin_lockout[1]]
    ELSE NoCall

\* History: a new call of caller c.
NewPinCall(c, op, pin) ==
    [IdlePinCall EXCEPT !.op = op, !.pin = pin, !.turn = 1 - pinCalls[c].turn,
                        !.afterSetPIN =
                            IF pinHistory.last.op # "setPIN" \/ pinHistory.last.pin # pin
                            THEN ""
                            ELSE IF pinHistory.last.locked THEN "unlocked" ELSE "set"]

\* verifyPIN(pin) up to `await hashPassword(pin)`: the lockout check, which
\* throws, and the read of the stored PIN, which returns false for none.
VerifyPIN(c, pin) ==
    /\ pinCalls[c].pc = "idle"
    /\ LET check == isLockedOut(localStorage, now)
           call == NewPinCall(c, "verifyPIN", pin)
           returns == check.locked \/ check.storage.user_pin = NoItem
       IN  /\ localStorage' = check.storage
           /\ pinCalls' = [pinCalls EXCEPT ![c] =
                 IF check.locked THEN [call EXCEPT !.result = "locked"]
                 ELSE IF check.storage.user_pin = NoItem
                 THEN [call EXCEPT !.result = "false"]
                 ELSE [call EXCEPT !.pc = "hashing",
                                   !.storedPIN = check.storage.user_pin]]
           /\ pinHistory' =
                 [since |-> IF check.storage # localStorage THEN NoItem
                            ELSE pinHistory.since,
                  last |-> IF returns THEN Completed("verifyPIN", pin)
                           ELSE pinHistory.last]
    /\ UNCHANGED <<now, besidesPin>>

\* verifyPIN after `await hashPassword(pin)`: the comparison with the stored
\* PIN read before the await, then resetAttempts() or incrementAttempts().
VerifyPINSettle(c) ==
    /\ pinCalls[c].pc = "hashing"
    /\ pinCalls[c].op = "verifyPIN"
    /\ LET isValid == hashPassword(pinCalls[c].pin) = pinCalls[c].storedPIN IN
         /\ localStorage' = IF isValid THEN resetAttempts(localStorage)
                            ELSE incrementAttempts(localStorage, now)
         /\ pinCalls' = [pinCalls EXCEPT ![c] =
                           [@ EXCEPT !.pc = "idle",
                                     !.result = IF isValid THEN "true" ELSE "false"]]
         /\ pinHistory' =
               [since |-> IF ~isValid /\ getAttempts(localStorage) + 1 = MAX_ATTEMPTS
                          THEN <<now>> ELSE pinHistory.since,
                last |-> Completed("verifyPIN", pinCalls[c].pin)]
    /\ UNCHANGED <<now, besidesPin>>

\* setPIN(pin) up to `await hashPassword(pin)`.
SetPIN(c, pin) ==
    /\ pinCalls[c].pc = "idle"
    /\ pinCalls' = [pinCalls EXCEPT ![c] =
                      [NewPinCall(c, "setPIN", pin) EXCEPT !.pc = "hashing"]]
    /\ UNCHANGED <<now, localStorage, pinHistory, besidesPin>>

\* setPIN after the await: setItem(PIN_KEY, hashedPIN); resetAttempts().
SetPINSettle(c) ==
    /\ pinCalls[c].pc = "hashing"
    /\ pinCalls[c].op = "setPIN"
    /\ localStorage' = resetAttempts([localStorage EXCEPT
                                        !.user_pin = hashPassword(pinCalls[c].pin)])
    /\ pinCalls' = [pinCalls EXCEPT ![c] = [@ EXCEPT !.pc = "idle", !.result = "set"]]
    /\ pinHistory' = [since |-> NoItem, last |-> Completed("setPIN", pinCalls[c].pin)]
    /\ UNCHANGED <<now, besidesPin>>

\* removePIN(): removeItem(PIN_KEY); resetAttempts().
RemovePIN ==
    /\ localStorage' = resetAttempts([localStorage EXCEPT !.user_pin = NoItem])
    /\ pinHistory' = [since |-> NoItem, last |-> Completed("removePIN", "")]
    /\ UNCHANGED <<now, pinCalls, besidesPin>>

\* The times at which the answer of isLockedOut() changes.
PinTargets ==
    IF localStorage.pin_lockout = NoItem THEN {}
    ELSE {t \in {localStorage.pin_lockout[1], localStorage.pin_lockout[1] + 1} :
            t > now /\ t <= PinMaxNow}

\* Time passes.
PinTick(t) ==
    /\ now' = t
    /\ UNCHANGED <<pinVars, besidesPin>>

NextPin ==
    \/ \E c \in PinCallers, pin \in Pins : VerifyPIN(c, pin)
    \/ \E c \in PinCallers : VerifyPINSettle(c)
    \/ \E c \in PinCallers, pin \in Pins : SetPIN(c, pin)
    \/ \E c \in PinCallers : SetPINSettle(c)
    \/ RemovePIN
    \/ \E t \in PinTargets : PinTick(t)

SpecPin == Init /\ [][NextPin]_vars

(***************************************************************************)
(* The wallet store (walletStore.ts).  The file holds two versions of the  *)
(* store; the actions below follow the second one (lines 415-910), whose   *)
(* wallet and token management is statement for statement that of the      *)
(* first.  set() of the store runs without interruption; an action of the  *)
(* model is the code of a store action between two awaits.  Of a wallet    *)
(* the model keeps id, address, privateKey and type, of a token address,   *)
(* chainId, symbol, balance and balanceUSD.                                *)
(***************************************************************************)
besidesStore == <<clockless, pinVars, transactions, send, balance>>

\* chainId of the entries of SUPPORTED_CHAINS.
chainIdOf(chain) ==
    CASE chain = "ethereum" -> 1
      [] chain = "solana" -> 101
      [] chain = "bitcoin" -> 0

\* Object.values(SUPPORTED_CHAINS).find(c => c.chainId === chainId): the chains
\* found, none for an id that is not in the table.
chainsWithId(chainId) == {chain \in Chains : chainIdOf(chain) = chainId}

\* The chain ids the callers pass: of the supported chains, and one of none.
ChainIds == {1, 101, 0, 5}

\* Token addresses: one address in two spellings.
TokenAddresses == {"0xAB", "0xab"}

\* String.prototype.toLowerCase on the addresses above.
toLowerCase(str) == IF str = "0xAB" THEN "0xab" ELSE str

\* The chain ids of the tokens.
TokenChainIds == {1, 56}

\* usd prices: data[tokenId]?.usd || 0 of getTokenPrice, current_price of a market.
Prices == {0, 2}

\* The token as the callers of addToken build it: balance '0', balanceUSD 0.
NewToken(address, chainId) ==
    [address |-> address, chainId |-> chainId, symbol |-> "TKN",
     balance |-> ZeroBalance, balanceUSD |-> ZeroUSD]

\* t => t.address.toLowerCase() === address.toLowerCase() && t.chainId === chainId
sameToken(t, address, chainId) ==
    /\ toLowerCase(t.address) = toLowerCase(address)
    /\ t.chainId = chainId

\* state.tokens.findIndex(...) + 1: the first entry that matches, 0 for none.
tokenIndex(list, address, chainId) ==
    LET hits == {i \in 1..Len(list) : sameToken(list[i], address, chainId)}
    IN  IF hits = {} THEN 0 ELSE CHOOSE i \in hits : \A j \in hits : i <= j

\* state.wallets.findIndex(w => w.id === walletId) + 1
walletIndex(list, walletId) ==
    LET hits == {i \in 1..Len(list) : list[i].id = walletId}
    IN  IF hits = {} THEN 0 ELSE CHOOSE i \in hits : \A j \in hits : i <= j

\* list.splice(i - 1, 1)
splice(list, i) == SubSeq(list, 1, i - 1) \o SubSeq(list, i + 1, Len(list))

\* parseFloat(balance) * price
usd(bal, price) ==
    IF bal.amount = "0" \/ (price = 0 /\ bal.amount # "NaN") THEN ZeroUSD
    ELSE [of |-> bal, price |-> price]

\* The service whose balance query updateTokenBalance calls.
serviceOf(chain, tokenAddress) ==
    IF chain = "solana" THEN "solana"
    ELSE IF chain = "bitcoin" /\ tokenAddress = "" THEN "bitcoin"
    ELSE "ethereum"

\* The store action has returned to its caller; importTokensByAddress goes on
\* with the next address, up to its await of getTokenInfo.
returned(call) ==
    IF call.op = "importTokensByAddress" /\ call.rest # <<>>
    THEN [IdleCall EXCEPT !.pc = "info", !.op = call.op, !.chainId = call.chainId,
                          !.rest = call.rest]
    ELSE IdleCall

\* updateTokenBalance(tokenAddress, chainId) up to its first await, with wallet
\* and chain what get() returns: activeWallet and selectedChain are read here
\* and nowhere else.
updateTokenBalance(call, tokenAddress, chainId, wallet, chain) ==
    IF wallet = NoWallet THEN returned(call)
    ELSE [call EXCEPT !.pc = "fetch", !.tokenAddress = tokenAddress,
                      !.chainId = chainId, !.address = wallet.address,
                      !.chain = chain]

\* A plausible slip: the result is dropped when the wallet or the chain is no
\* longer the one the balance was fetched for.
writeBalance_rechecked(list, call, bal, balUSD) ==
    LET i == tokenIndex(list, call.tokenAddress, call.chainId) IN
    IF call.tokenAddress = "" \/ i = 0
       \/ activeWallet.address # call.address \/ selectedChain # call.chain
    THEN list
    ELSE [list EXCEPT ![i].balance = bal, ![i].balanceUSD = balUSD]

\* The set() at the end of updateTokenBalance: nothing for the native balance,
\* else the token is looked up again and its balance fields are written.
writeBalance(list, call, bal, balUSD) ==
    LET i == tokenIndex(list, call.tokenAddress, call.chainId) IN
    IF call.tokenAddress = "" \/ i = 0 THEN list
    ELSE [list EXCEPT ![i].balance = bal, ![i].balanceUSD = balUSD]

\* updateTokenBalance returns after its set(); history: whether the set() has
\* changed the list for another wallet or chain than the ones now in the store.
written(call, after) ==
    [returned(call) EXCEPT !.stale =
        /\ after # tokenList
        /\ activeWallet.address # call.address \/ selectedChain # call.chain]

\* createWallet(name, mnemonic) up to `await encrypt(...)`: the keys of the
\* chains are derived, id is Date.now().toString().
CreateWallet(c, phrase) ==
    /\ calls[c].pc = "idle"
    /\ Len(wallets) < MaxWallets
    /\ calls' = [calls EXCEPT ![c] =
                    [IdleCall EXCEPT !.pc = "encrypt", !.op = "createWallet",
                                     !.wallet = generatedWallet(now, phrase)]]
    /\ UNCHANGED <<wallets, activeWallet, isLocked, isConnected, selectedChain,
                   tokenList>>
    /\ UNCHANGED <<now, besidesStore>>

\* importWallet(privateKeyOrMnemonic, name) with a phrase or key ethers accepts,
\* up to `await encrypt(...)`.
ImportWallet(c, phrase) ==
    /\ calls[c].pc = "idle"
    /\ Len(wallets) < MaxWallets
    /\ calls' = [calls EXCEPT ![c] =
                    [IdleCall EXCEPT !.pc = "encrypt", !.op = "importWallet",
                                     !.wallet = importedWallet(now, phrase)]]
    /\ UNCHANGED <<wallets, activeWallet, isLocked, isConnected, selectedChain,
                   tokenList>>
    /\ UNCHANGED <<now, besidesStore>>

\* encrypt has resolved: the wallet is pushed and made active; createWallet
\* then calls updateTokenBalance('', get().selectedChain.chainId).
WalletEncrypted(c) ==
    /\ calls[c].pc = "encrypt"
    /\ LET wallet == calls[c].wallet IN
         /\ wallets' = Append(wallets, wallet)
         /\ activeWallet' = wallet
         /\ isLocked' = FALSE
         /\ isConnected' = TRUE
         /\ calls' = [calls EXCEPT ![c] =
                IF calls[c].op = "createWallet"
                THEN updateTokenBalance([IdleCall EXCEPT !.op = "createWallet"], "",
                                        chainIdOf(selectedChain), wallet, selectedChain)
                ELSE IdleCall]
    /\ UNCHANGED <<selectedChain, tokenList>>
    /\ UNCHANGED <<now, besidesStore>>

\* A plausible slip: the wallet is removed and activeWallet is left as it is.
deleteWallet_keepActive(walletId) ==
    LET index == walletIndex(wallets, walletId)
        left == IF index = 0 THEN wallets ELSE splice(wallets, index)
    IN  [wallets |-> left, activeWallet |-> activeWallet,
         isConnected |-> isConnected, isLocked |-> isLocked]

\* The set() of deleteWallet(walletId): the state it leaves.
deleteWallet(walletId) ==
    LET index == walletIndex(wallets, walletId)
        left == IF index = 0 THEN wallets ELSE splice(wallets, index)
        replace == index # 0 /\ activeWallet.id = walletId
        active == IF ~replace THEN activeWallet
                  ELSE IF left = <<>> THEN NoWallet ELSE left[1]
        none == replace /\ active = NoWallet
    IN  [wallets |-> left, activeWallet |-> active,
         isConnected |-> IF none THEN FALSE ELSE isConnected,
         isLocked |-> IF none THEN TRUE ELSE isLocked]

DeleteWallet(walletId) ==
    /\ LET after == deleteWallet(walletId) IN
         /\ wallets' = after.wallets
         /\ activeWallet' = after.activeWallet
         /\ isConnected' = after.isConnected
         /\ isLocked' = after.isLocked
    /\ UNCHANGED <<selectedChain, tokenList, calls>>
    /\ UNCHANGED <<now, besidesStore>>

\* The set() of switchWallet(walletId): the wallet found becomes the active
\* one.
switchWallet(walletId) ==
    LET index == walletIndex(wallets, walletId) IN
    IF index = 0 THEN activeWallet ELSE wallets[index]

SwitchWallet(walletId) ==
    /\ activeWallet' = switchWallet(walletId)
    /\ UNCHANGED <<wallets, isLocked, isConnected, selectedChain, tokenList, calls>>
    /\ UNCHANGED <<now, besidesStore>>

\* lockWallet()
LockWallet ==
    /\ isLocked' = TRUE
    /\ isConnected' = FALSE
    /\ UNCHANGED <<wallets, activeWallet, selectedChain, tokenList, calls>>
    /\ UNCHANGED <<now, besidesStore>>

\* The PINs entered: sequences of characters, of six characters and of five.
EnteredPins == {<<"1", "2", "3", "4", "5", "6">>, <<"1", "2", "3", "4", "5">>}

\* unlockWallet(pin): const isValid = pin.length === 6
UnlockWallet(pin) ==
    /\ isLocked' = IF Len(pin) = 6 THEN FALSE ELSE isLocked
    /\ isConnected' = IF Len(pin) = 6 THEN TRUE ELSE isConnected
    /\ UNCHANGED <<wallets, activeWallet, selectedChain, tokenList, calls>>
    /\ UNCHANGED <<now, besidesStore>>

\* switchChain(chainId): the chain found is selected and updateTokenBalance('',
\* chainId) is called; nothing happens for an id that is not in the table.
SwitchChain(c, chainId) ==
    /\ calls[c].pc = "idle"
    /\ LET found == chainsWithId(chainId) IN
         IF found = {}
         THEN UNCHANGED <<selectedChain, calls>>
         ELSE LET chain == CHOOSE ch \in found : TRUE IN
              /\ selectedChain' = chain
              /\ calls' = [calls EXCEPT ![c] =
                    updateTokenBalance([IdleCall EXCEPT !.op = "switchChain"], "",
                                       chainId, activeWallet, chain)]
    /\ UNCHANGED <<wallets, activeWallet, isLocked, isConnected, tokenList>>
    /\ UNCHANGED <<now, besidesStore>>

\* A plausible slip: the token is pushed whether it is in the list or not.
addToken_always(list, token) == Append(list, token)

\* The set() of addToken(token): the token is pushed unless the list has it.
addToken(list, token) ==
    IF tokenIndex(list, token.address, token.chainId) = 0
    THEN Append(list, token)
    ELSE list

\* addToken(token) up to its await: the set(), then updateTokenBalance(
\* token.address, token.chainId) to its first await.
AddToken(c, address, chainId) ==
    /\ calls[c].pc = "idle"
    /\ LET token == NewToken(address, chainId)
           present == tokenIndex(tokenList, address, chainId) # 0
       IN  /\ present \/ Len(tokenList) < MaxTokens
           /\ tokenList' = addToken(tokenList, token)
           /\ calls' = [calls EXCEPT ![c] =
                  updateTokenBalance([IdleCall EXCEPT !.op = "addToken",
                                                      !.present = present],
                                     address, chainId, activeWallet, selectedChain)]
    /\ UNCHANGED <<wallets, activeWallet, isLocked, isConnected, selectedChain>>
    /\ UNCHANGED <<now, besidesStore>>

\* The set() of removeToken(tokenAddress, chainId): splice(index, 1).
removeToken(list, address, chainId) ==
    LET index == tokenIndex(list, address, chainId) IN
    IF index = 0 THEN list ELSE splice(list, index)

RemoveToken(address, chainId) ==
    /\ tokenList' = removeToken(tokenList, address, chainId)
    /\ UNCHANGED <<wallets, activeWallet, isLocked, isConnected, selectedChain, calls>>
    /\ UNCHANGED <<now, besidesStore>>

\* updateTokenBalance(tokenAddress, chainId) called by the application.
UpdateTokenBalance(c, tokenAddress, chainId) ==
    /\ calls[c].pc = "idle"
    /\ calls' = [calls EXCEPT ![c] =
            updateTokenBalance([IdleCall EXCEPT !.op = "updateTokenBalance"],
                               tokenAddress, chainId, activeWallet, selectedChain)]
    /\ UNCHANGED <<wallets, activeWallet, isLocked, isConnected, selectedChain,
                   tokenList>>
    /\ UNCHANGED <<now, besidesStore>>

\* The balance query has returned: the text the service gives for the address
\* and the chain read at the start, '0' when the query failed, as it does for
\* an address that is none of the chain's.  Then the symbol is looked up, by
\* t.address === tokenAddress, and with a symbol getTokenPrice is awaited;
\* without one the result is written at once.
UpdateFetched(c, answer) ==
    /\ calls[c].pc = "fetch"
    /\ LET call == calls[c]
           service == serviceOf(call.chain, call.tokenAddress)
           try == tryGetBalance(service, answer)
           bal == IF try.threw THEN ZeroBalance
                  ELSE [amount |-> try.result, of |-> call.address, on |-> call.chain]
           hasSymbol == \/ call.tokenAddress = ""
                        \/ \E i \in 1..Len(tokenList) :
                              tokenList[i].address = call.tokenAddress
       IN  /\ answer \in BalanceAnswers(service)
           /\ call.address.family # familyOf(service) => try.threw
           /\ IF hasSymbol
              THEN /\ calls' = [calls EXCEPT ![c].pc = "price", ![c].balance = bal]
                   /\ UNCHANGED tokenList
              ELSE /\ tokenList' = writeBalance(tokenList, call, bal, ZeroUSD)
                   /\ calls' = [calls EXCEPT ![c] = written(call, tokenList')]
    /\ UNCHANGED <<wallets, activeWallet, isLocked, isConnected, selectedChain>>
    /\ UNCHANGED <<now, besidesStore>>

\* getTokenPrice has returned, 0 when it failed: balanceUSD is computed and the
\* result is written.
UpdatePriced(c, price) ==
    /\ calls[c].pc = "price"
    /\ LET call == calls[c] IN
         /\ tokenList' = writeBalance(tokenList, call, call.balance,
                                      usd(call.balance, price))
         /\ calls' = [calls EXCEPT ![c] = written(call, tokenList')]
    /\ UNCHANGED <<wallets, activeWallet, isLocked, isConnected, selectedChain>>
    /\ UNCHANGED <<now, besidesStore>>

\* The lists of addresses given to importTokensByAddress.
AddressLists == UNION { [1..n -> TokenAddresses] : n \in 1..MaxTokens }

\* importTokensByAddress(addresses, chainId) up to its first await, of
\* getTokenInfo(address).
ImportTokensByAddress(c, addresses, chainId) ==
    /\ calls[c].pc = "idle"
    /\ calls' = [calls EXCEPT ![c] =
            [IdleCall EXCEPT !.pc = "info", !.op = "importTokensByAddress",
                             !.chainId = chainId, !.rest = addresses]]
    /\ UNCHANGED <<wallets, activeWallet, isLocked, isConnected, selectedChain,
                   tokenList>>
    /\ UNCHANGED <<now, besidesStore>>

\* getTokenInfo has returned: with the token's data addToken(token) is called,
\* without (null or an error, which is caught) the loop goes on.
TokenInfo(c, found) ==
    /\ calls[c].pc = "info"
    /\ LET call == calls[c]
           address == Head(call.rest)
           next == [call EXCEPT !.rest = Tail(call.rest)]
           present == tokenIndex(tokenList, address, call.chainId) # 0
       IN  IF found
           THEN /\ present \/ Len(tokenList) < MaxTokens
                /\ tokenList' = addToken(tokenList, NewToken(address, call.chainId))
                /\ calls' = [calls EXCEPT ![c] =
                      updateTokenBalance([next EXCEPT !.present = present],
                          address, call.chainId, activeWallet, selectedChain)]
           ELSE /\ calls' = [calls EXCEPT ![c] = returned(next)]
                /\ UNCHANGED tokenList
    /\ UNCHANGED <<wallets, activeWallet, isLocked, isConnected, selectedChain>>
    /\ UNCHANGED <<now, besidesStore>>

\* A plausible slip: the market's entry overwrites the balance as well.
marketUpdate_balance(token, price) ==
    [token EXCEPT !.balance = ZeroBalance, !.balanceUSD = usd(token.balance, price)]

\* What updateMarketData does to a token it has a market for:
\* token.balanceUSD = parseFloat(token.balance) * market.current_price
marketUpdate(token, price) ==
    [token EXCEPT !.balanceUSD = usd(token.balance, price)]

\* updateMarketData() with an answer that has a market for the symbol of the
\* tokens.
UpdateMarketData(price) ==
    /\ tokenList' = [i \in 1..Len(tokenList) |-> marketUpdate(tokenList[i], price)]
    /\ UNCHANGED <<wallets, activeWallet, isLocked, isConnected, selectedChain, calls>>
    /\ UNCHANGED <<now, besidesStore>>

\* Time passes; Date.now() gives the ids of the wallets.
StoreTick ==
    /\ now < MaxStoreNow
    /\ now' = now + 1
    /\ UNCHANGED <<storeVars, besidesStore>>

\* sendTransaction(to, amount) of the store, called with the store's state.
StoreSend(toValid) ==
    StoreSendTransaction(selectedChain, activeWallet, FALSE, toValid, <<>>, 1000)

\* The ids given to deleteWallet and switchWallet: the last one is no wallet's.
WalletIds == 0..MaxStoreNow + 1

\* Wallet management.
NextStore ==
    \/ \E c \in Callers, phrase \in Phrases : CreateWallet(c, phrase)
    \/ \E c \in Callers, phrase \in Phrases : ImportWallet(c, phrase)
    \/ \E c \in Callers : WalletEncrypted(c)
    \/ \E walletId \in WalletIds : DeleteWallet(walletId)
    \/ \E walletId \in WalletIds : SwitchWallet(walletId)
    \/ LockWallet
    \/ \E pin \in EnteredPins : UnlockWallet(pin)
    \/ \E c \in Callers : UpdateFetched(c, "ok")
    \/ \E c \in Callers : UpdatePriced(c, 0)
    \/ StoreTick

SpecStore == Init /\ [][NextStore]_vars

\* The balances of the tokens, with one caller at a time: a wallet is created
\* and one imported, both from the same phrase, the wallets are switched,
\* tokens added, removed and refreshed, market data loaded, and one
\* transaction sent on the selected chain.
NextTokens ==
    \/ CreateWallet("a1", "seed one")
    \/ ImportWallet("a1", "seed one")
    \/ WalletEncrypted("a1")
    \/ \E walletId \in WalletIds : SwitchWallet(walletId)
    \/ \E address \in TokenAddresses, chainId \in TokenChainIds :
          AddToken("a1", address, chainId)
    \/ \E address \in TokenAddresses, chainId \in TokenChainIds :
          RemoveToken(address, chainId)
    \/ \E address \in TokenAddresses, chainId \in TokenChainIds :
          UpdateTokenBalance("a1", address, chainId)
    \/ \E answer \in {"ok", "networkError"} : UpdateFetched("a1", answer)
    \/ \E price \in Prices : UpdatePriced("a1", price)
    \/ \E price \in Prices : UpdateMarketData(price)
    \/ transactions = <<>> /\ StoreSend(TRUE)
    \/ Decrypt("plain", TRUE)
    \/ EvmSend("ok")

SpecTokens == Init /\ [][NextTokens]_vars

\* The entries of the token list, with two callers: a wallet is created,
\* tokens are added, imported and removed, and the calls overlap.
NextTokenList ==
    \/ CreateWallet("a1", "seed one")
    \/ \E c \in Callers : WalletEncrypted(c)
    \/ \E c \in Callers, address \in TokenAddresses, chainId \in TokenChainIds :
          AddToken(c, address, chainId)
    \/ \E address \in TokenAddresses, chainId \in TokenChainIds :
          RemoveToken(address, chainId)
    \/ \E c \in Callers, addresses \in AddressLists :
          ImportTokensByAddress(c, addresses, 1)
    \/ \E c \in Callers, found \in BOOLEAN : TokenInfo(c, found)
    \/ \E c \in Callers : UpdateFetched(c, "ok")
    \/ \E c \in Callers : UpdatePriced(c, 2)

SpecTokenList == Init /\ [][NextTokenList]_vars

\* updateTokenBalance of one token with two callers, while wallets are
\* created and switched and the chain is switched.
NextRace ==
    \/ \E phrase \in Phrases : CreateWallet("a1", phrase)
    \/ WalletEncrypted("a1")
    \/ \E walletId \in WalletIds : SwitchWallet(walletId)
    \/ \E chainId \in ChainIds : SwitchChain("a2", chainId)
    \/ AddToken("a1", "0xAB", 1)
    \/ \E c \in Callers : UpdateTokenBalance(c, "0xAB", 1)
    \/ \E c \in Callers, answer \in {"ok", "networkError"} : UpdateFetched(c, answer)
    \/ \E c \in Callers : UpdatePriced(c, 2)

SpecRace == Init /\ [][NextRace]_vars

\* The chains of a wallet: a wallet is created from a phrase, the chain is
\* switched, the native balance is queried and a transaction is sent on the
\* selected chain.
NextChains ==
    \/ \E phrase \in Phrases : CreateWallet("a1", phrase)
    \/ WalletEncrypted("a1")
    \/ \E chainId \in ChainIds : SwitchChain("a2", chainId)
    \/ \E c \in Callers, chain \in Chains : \E answer \in BalanceAnswers(chain) :
          UpdateFetched(c, answer)
    \/ \E c \in Callers, price \in Prices : UpdatePriced(c, price)
    \/ transactions = <<>> /\ \E toValid \in BOOLEAN : StoreSend(toValid)
    \/ \E outcome \in DecryptOutcomes, accepted \in BOOLEAN : Decrypt(outcome, accepted)
    \/ BtcGetUTXOs(FALSE)
    \/ SolBlockhash(FALSE)
    \/ \E outcome \in EvmSendOutcomes : EvmSend(outcome)

SpecChains == Init /\ [][NextChains]_vars

(***************************************************************************)
(* Claims about the gateway behind the limiter (specification Spec).       *)
(***************************************************************************)
Arrived(r) == req[r].pc # "idle"
InJob(r) == req[r].pc \in {"registered", "fetching", "sleeping"}

\* C1 as stated: every request whose endpoint starts with no entry of the
\* allow-list is answered 403 and causes no upstream fetch.
C1_DisallowedAlways403 ==
    \A r \in Reqs :
        (Arrived(r) /\ req[r].endpoint \in DisallowedInputs)
            => /\ req[r].pc = "done"
               /\ req[r].resp.status = 403
               /\ req[r].calls = 0

\* C1 as amended: a request whose endpoint starts with no entry of the
\* allow-list is never scheduled on the limiter and causes no upstream fetch;
\* it is answered 429 when its client is over the per-client limit, else 400
\* when the endpoint is empty, else 403 'Endpoint not allowed'.
C1_DisallowedNeverForwarded ==
    \A r \in Reqs :
        (Arrived(r) /\ req[r].endpoint \notin AllowedInputs)
            => /\ req[r].pc = "done"
               /\ req[r].calls = 0
               /\ \A i \in 1..Len(queue) : queue[i] # r
               /\ \A i \in 1..Len(arrivalOrder) : arrivalOrder[i] # r
               /\ req[r].resp.status =
                    IF req[r].limited THEN 429
                    ELSE IF req[r].endpoint = EmptyEndpoint THEN 400
                    ELSE 403
               /\ (req[r].resp.status = 403
                     => req[r].resp.error = "Endpoint not allowed")

\* A request for a disallowed endpoint was answered 403 while another request
\* was being served upstream.
C1_Witness ==
    \E r, other \in Reqs :
        /\ req[r].pc = "done"
        /\ req[r].endpoint \in DisallowedInputs
        /\ req[r].resp.status = 403
        /\ req[r].calls = 0
        /\ req[other].pc = "fetching"

\* C5: at most one request holds the limiter's slot, from the registration of
\* its job to the end of its retry sequence; so at most one upstream call is
\* in flight.
C5_OneUpstreamCallAtATime ==
    /\ Cardinality({r \in Reqs : InJob(r)}) <= maxConcurrent
    /\ Cardinality({r \in Reqs : req[r].pc = "fetching"}) <= 1

\* One request is in a retry of its upstream call while another one waits in
\* the queue with a token left.
C5_Witness ==
    \E r, other \in Reqs :
        /\ req[r].pc \in {"fetching", "sleeping"}
        /\ req[r].attempt >= 1
        /\ req[other].pc = "queued"
        /\ reservoir >= 1

\* C6: the request whose first upstream call starts is the one that was
\* scheduled on the limiter before every other request still waiting.
C6_FirstInFirstOut ==
    [][\A r \in Reqs :
          (req[r].pc = "registered" /\ req'[r].pc = "fetching")
              => Head(arrivalOrder) = r]_vars

\* Two requests wait in the queue of a limiter that is busy or out of tokens.
C6_Witness ==
    /\ Len(queue) = 2
    /\ (running = maxConcurrent \/ reservoir = 0)

\* C7 as stated: between two refills the gateway issues at most as many
\* upstream calls, retries included, as the reservoir holds.
C7_ReservoirCapsUpstreamCalls ==
    upstreamCalls <= reservoirRefreshAmount

\* C8: if the reservoir keeps being refilled (it holds a token again and
\* again), every request that was scheduled on the limiter is answered.
C8_EveryScheduledRequestAnswered ==
    ([]<>(reservoir >= 1))
        => \A r \in Reqs : (req[r].pc = "queued") ~> (req[r].pc = "done")

\* After a refill of the reservoir a request was taken from the queue, served
\* upstream and answered, while another request waits in the queue.
C8_Witness ==
    \E r, other \in Reqs :
        /\ req[r].pc = "done"
        /\ req[r].calls >= 1
        /\ lastReservoirRefresh > 0
        /\ reservoir < reservoirRefreshAmount
        /\ req[other].pc = "queued"

(***************************************************************************)
(* Claims about the per-client limiter (specification SpecClients).        *)
(***************************************************************************)
\* The client's bucket is in its window: it exists and the clock is not past
\* its resetTime = windowStart + 60000.
InWindow(ip) ==
    /\ ipRateLimits[ip] # NoEntry
    /\ now <= ipRateLimits[ip].resetTime

\* Admissions of the client since the start of its bucket's window.
AdmittedInWindow(ip) ==
    Cardinality({i \in 1..Len(admitLog[ip]) :
                    admitLog[ip][i] >= ipRateLimits[ip].resetTime - WindowMs})

\* Admissions of the client in the last 60 seconds, (now - 60000, now].
AdmittedInLastMinute(ip) ==
    Cardinality({i \in 1..Len(admitLog[ip]) : admitLog[ip][i] > now - WindowMs})

\* This step is the arrival of a request in slot r.
Arrives(r) ==
    /\ req[r].pc \in {"idle", "done"}
    /\ req'[r] # req[r]

\* C2 as stated, the window reset: a request that arrives 60 seconds after its
\* client's window started, or later, is admitted.
C2_AdmittedAt60Seconds ==
    [][\A r \in Reqs :
          (/\ Arrives(r)
           /\ ipRateLimits[req'[r].ip] # NoEntry
           /\ now >= ipRateLimits[req'[r].ip].resetTime)
              => ~req'[r].limited]_vars

\* C2 as amended: in each window of a client at most N of its requests are
\* admitted, whatever the interleaving of the handlers; a request is refused
\* with 429 exactly when its client's window is running and N requests were
\* admitted in it; a request that arrives more than 60 seconds after the window
\* started opens a new window and is admitted.
C2_AtMostNPerWindow ==
    /\ [](\A ip \in Ips :
             ipRateLimits[ip] # NoEntry
                => /\ AdmittedInWindow(ip) <= limit
                   /\ (InWindow(ip) => AdmittedInWindow(ip) = ipRateLimits[ip].count))
    /\ [][\A r \in Reqs :
             Arrives(r)
                => /\ req'[r].limited
                        <=> (InWindow(req'[r].ip)
                               /\ AdmittedInWindow(req'[r].ip) >= limit)
                   /\ req'[r].limited
                        => (req'[r].pc = "done" /\ req'[r].resp.status = 429)
                   /\ (ipRateLimits[req'[r].ip] # NoEntry
                         /\ now > ipRateLimits[req'[r].ip].resetTime)
                        => (~req'[r].limited
                              /\ ipRateLimits'[req'[r].ip] =
                                   [count |-> 1, resetTime |-> now + WindowMs])]_vars

\* A client was refused in a full window, and after the window a request of
\* the same client opened a new window.
C2_Witness ==
    \E r, other \in Reqs :
        /\ req[r].pc = "done"
        /\ req[r].limited
        /\ req[other].ip = req[r].ip
        /\ Arrived(other)
        /\ ~req[other].limited
        /\ now > WindowMs
        /\ ipRateLimits[req[r].ip] = [count |-> 1, resetTime |-> now + WindowMs]

\* C3 as stated: in every 60 seconds, wherever they start, at most N requests
\* of a client are admitted.
C3_AtMostNPerRollingMinute ==
    \A ip \in Ips : AdmittedInLastMinute(ip) <= limit

\* C3 as amended: the windows are fixed, not rolling.  60 seconds that lie
\* across the end of a client's window can hold the admissions of two windows:
\* at most 2N requests of a client are admitted in any 60 seconds.
C3_AtMostTwiceNPerRollingMinute ==
    \A ip \in Ips : AdmittedInLastMinute(ip) <= 2 * limit

\* More than N admissions of one client in 60 seconds, across a window's end.
C3_Witness ==
    \E ip \in Ips :
        /\ AdmittedInLastMinute(ip) > limit
        /\ InWindow(ip)
        /\ ipRateLimits[ip].resetTime > 2 * WindowMs

(***************************************************************************)
(* Claims about a request refused by the per-client limiter                *)
(* (specification SpecRoute).                                              *)
(***************************************************************************)
\* C4: a request refused by the per-client limiter is answered 429 with a
\* Retry-After header, at once and without any upstream fetch.
C4_RefusedWithRetryAfter ==
    \A r \in Reqs :
        req[r].limited
            => /\ req[r].pc = "done"
               /\ req[r].resp.status = 429
               /\ req[r].resp.retryAfter # NoHeader
               /\ req[r].calls = 0

(***************************************************************************)
(* Claims about retryWithBackoff (specification SpecRetry).                *)
(***************************************************************************)
Retryable(error) ==
    \/ error.status = 429
    \/ (error.status >= 500 /\ error.status <= 599)

Other4xx(error) ==
    /\ error.status >= 400
    /\ error.status <= 499
    /\ error.status # 429

\* C9: an attempt that failed with 429, with 5xx or by timeout (504) is
\* followed by a backoff and another attempt while attempts remain, so the
\* request fails with such an error only after its last attempt; an attempt
\* that failed with another 4xx ends the request at once, with no backoff and no
\* further attempt, and its error is the one answered.
C9_RetryClassification ==
    \A r \in Reqs :
        LET e == req[r].lastAttempt IN
        /\ (Retryable(e) /\ req[r].pc = "done") => req[r].calls = 5
        /\ Retryable(e) => req[r].pc \in {"sleeping", "fetching", "done"}
        /\ req[r].pc = "sleeping" => (~Other4xx(e) /\ req[r].calls < 5)
        /\ Other4xx(e)
              => /\ req[r].pc = "done"
                 /\ req[r].lastError = e
                 /\ req[r].resp = errorResponse(e)

\* A request was retried after a timeout and then ended by a 404 at its second
\* attempt.
C9_Witness ==
    \E r \in Reqs :
        /\ req[r].pc = "done"
        /\ req[r].lastAttempt.status = 404
        /\ req[r].calls = 2
        /\ req[r].resp.status = 500

\* C10: a request makes at most 5 upstream attempts; when the 5th attempt
\* fails too, the request is over and fails with the error of that attempt.
C10_FiveAttemptsLastError ==
    \A r \in Reqs :
        /\ req[r].calls <= 5
        /\ (req[r].calls = 5 /\ req[r].pc # "fetching" /\ req[r].lastAttempt # NoError)
              => /\ req[r].pc = "done"
                 /\ req[r].lastError = req[r].lastAttempt
                 /\ req[r].resp = errorResponse(req[r].lastAttempt)

\* Five attempts failed, the last one with 429 and a Retry-After header, and
\* the answer is a 429 with that header.
C10_Witness ==
    \E r \in Reqs :
        /\ req[r].pc = "done"
        /\ req[r].calls = 5
        /\ req[r].lastAttempt = [message |-> "HTTP", status |-> 429, retryAfter |-> "30"]
        /\ req[r].resp.status = 429
        /\ req[r].resp.retryAfter = "30"

(***************************************************************************)
(* Claims about the backoff delays (specification SpecBackoff).            *)
(***************************************************************************)
\* The delay of retry k without jitter, as the claims state it.
StatedBase(k) == min(1000 * (2 ^ k), 30000)

\* C11: the delay slept before retry k lies in
\* [min(1000*2^k, 30000), min(1000*2^k, 30000) + 1000) when the failed response
\* carried no Retry-After header; when it carried one, the delay is a time,
\* and for a header of 30 seconds it is exactly 30000 ms.
C11_DelayFormula ==
    \A r \in Reqs : \A i \in 1..Len(req[r].sleeps) :
        LET s == req[r].sleeps[i]
            k == i - 1
        IN  /\ s.attempt = k
            /\ ~s.finalDelay.nan
            /\ IF s.retryAfter = NoHeader
               THEN /\ StatedBase(k) <= s.finalDelay.value
                    /\ s.finalDelay.value < StatedBase(k) + 1000
               ELSE /\ s.finalDelay.value >= 0
                    /\ (s.retryAfter = "30" => s.finalDelay.value = 30000)

\* The upstream call of request r succeeded after failed attempts.
SucceededAfterRetries(r) ==
    /\ req[r].pc \in {"parsing", "done"}
    /\ req[r].calls >= 2
    /\ req[r].lastAttempt = NoError

NonDecreasing(sleeps) ==
    \A i, j \in 1..Len(sleeps) :
        i < j => timeoutMs(sleeps[i].finalDelay) <= timeoutMs(sleeps[j].finalDelay)

\* C12 as stated: a request whose upstream call succeeds after k failures made
\* k + 1 upstream calls and slept k delays, each at least as long as the one
\* before, and is answered with the payload.
C12_DelaysNeverDecrease ==
    \A r \in Reqs :
        SucceededAfterRetries(r)
            => /\ Len(req[r].sleeps) = req[r].calls - 1
               /\ req[r].calls <= 5
               /\ (req[r].pc = "done" => req[r].resp.status = 200)
               /\ NonDecreasing(req[r].sleeps)

\* C12 as amended: a request whose upstream call succeeds after k failures
\* (1 <= k <= 4) made k + 1 upstream calls and slept k delays and is answered
\* with the payload; the delays are non-decreasing if none of the failed
\* responses carried a Retry-After header.
C12_ComputedDelaysNeverDecrease ==
    \A r \in Reqs :
        SucceededAfterRetries(r)
            => /\ Len(req[r].sleeps) = req[r].calls - 1
               /\ req[r].calls <= 5
               /\ (req[r].pc = "done" => req[r].resp.status = 200)
               /\ (\A i \in 1..Len(req[r].sleeps) : req[r].sleeps[i].retryAfter = NoHeader)
                     => NonDecreasing(req[r].sleeps)

\* Four attempts failed without Retry-After, the first sleep had the greatest
\* jitter and the second the least, the fifth attempt succeeded and the payload
\* was returned.
C12_Witness ==
    \E r \in Reqs :
        /\ req[r].pc = "done"
        /\ req[r].resp.status = 200
        /\ req[r].calls = 5
        /\ Len(req[r].sleeps) = 4
        /\ \A i \in 1..4 : req[r].sleeps[i].retryAfter = NoHeader
        /\ req[r].sleeps[1].finalDelay = Num(1999)
        /\ req[r].sleeps[2].finalDelay = Num(2000)
        /\ req[r].sleeps[4].finalDelay = Num(8000)

(***************************************************************************)
(* Claims about the error responses (specification SpecRoute).             *)
(***************************************************************************)
\* C13: every error response has a status of {400, 403, 429, 504, 500}: 400
\* for a missing endpoint, 403 for an endpoint that is not allow-listed, 429
\* with a Retry-After header for a request over the per-client limit or
\* refused upstream, 504 or 500 for the other failures of the upstream call.
C13_ErrorStatusMapping ==
    \A r \in Reqs :
        (req[r].pc = "done" /\ req[r].resp.status # 200)
            => /\ req[r].resp.status \in {400, 403, 429, 504, 500}
               /\ req[r].resp.status = 429 => req[r].resp.retryAfter # NoHeader
               /\ req[r].limited => req[r].resp.status = 429
               /\ req[r].resp.status = 400
                     <=> (~req[r].limited /\ req[r].endpoint = EmptyEndpoint)
               /\ req[r].resp.status = 403
                     <=> (~req[r].limited /\ req[r].endpoint # EmptyEndpoint
                            /\ ~routeIsAllowed(req[r].endpoint))
               /\ (req[r].resp.status \in {504, 500}
                     \/ (req[r].resp.status = 429 /\ ~req[r].limited))
                     => req[r].calls >= 1

(***************************************************************************)
(* Claims about sending (specification SpecWallet).                        *)
(***************************************************************************)
\* The Bitcoin send has come to the end of its input selection: the
\* recipient's output is in the PSBT and the fee is estimated.
BitcoinBuilt == send.chain = "bitcoin" /\ send.outputs # <<>>

\* C14: a Bitcoin send whose UTXOs total less than amount + fee is rejected
\* before anything is signed or broadcast: signAllInputs is not called and no
\* POST is made.
C14_InsufficientFundsBeforeSigning ==
    (/\ BitcoinBuilt
     /\ ~send.fee.nan
     /\ SumSeq(send.utxos) < send.amountSats + send.fee.value)
        => /\ send.signCalls = 0
           /\ send.broadcasts = 0
           /\ send.pc = "rejected"

\* C15: the selected inputs are a prefix of the provider's list, and when the
\* send goes on to build, their sum is at least amountSats + fee.
C15_InputsCoverAmountAndFee ==
    (BitcoinBuilt /\ ~send.fee.nan)
        => /\ send.inputValue = SumSeq(SubSeq(send.utxos, 1, send.inputCount))
           /\ send.inputValue >= send.amountSats + send.fee.value

\* C16: the transaction has one output of amountSats to the recipient, and a
\* second output, back to the sender, exactly when
\* change = inputs - amountSats - fee is above 546; its value is that change.
\* Inputs of exactly amountSats + fee give no change output.
C16_ChangeAboveDustOnly ==
    BitcoinBuilt
        => LET known == ~send.feeRate.nan
               fee == (send.inputCount * 148 + 34 + 10) * send.feeRate.value
               change == send.inputValue - send.amountSats - fee
           IN  /\ send.outputs[1] = [address |-> "to", value |-> Num(send.amountSats)]
               /\ Len(send.outputs) <= 2
               /\ Len(send.outputs) = 2 <=> (known /\ change > 546)
               /\ Len(send.outputs) = 2
                     => send.outputs[2] = [address |-> "from", value |-> Num(change)]
               /\ (known /\ send.inputValue = send.amountSats + fee)
                     => Len(send.outputs) = 1

\* A transaction with a change output of 547 satoshis was broadcast.
C16_Witness ==
    /\ BitcoinBuilt
    /\ send.pc = "resolved"
    /\ Len(send.outputs) = 2
    /\ send.outputs[2].value = Num(547)

\* C17: one invocation of sendTransaction makes at most one broadcast call,
\* whether the broadcast succeeds, is rejected or times out.
C17_AtMostOneBroadcast ==
    /\ send.broadcasts <= 1
    /\ Cardinality({i \in 1..Len(send.steps) : send.steps[i].step = "broadcast"}) <= 1

\* A send was rejected because its one broadcast call timed out.
C17_Witness ==
    /\ send.pc = "rejected"
    /\ send.error = "sendTimeout"
    /\ send.broadcasts = 1
    /\ send.steps[Len(send.steps)] = [step |-> "broadcast", ok |-> FALSE]

\* The stage of a step: inputs are resolved and the transaction is built, then
\* it is signed (and serialised), then broadcast, then confirmed.
Stage(step) ==
    CASE step \in {"resolve", "build"} -> 1
      [] step \in {"sign", "extract"} -> 2
      [] step = "broadcast" -> 3
      [] step = "confirm" -> 4

Succeeded(step) ==
    \E i \in 1..Len(send.steps) : send.steps[i] = [step |-> step, ok |-> TRUE]

C19_PendingRecordIffBroadcast ==
    send.pc \in {"resolved", "rejected"}
        => IF Succeeded("broadcast")
           THEN /\ send.pc = "resolved"
                /\ transactions =
                      <<[hash |-> send.hash, status |-> "pending"]>> \o send.before
           ELSE /\ send.pc = "rejected"
                /\ transactions = send.before

(***************************************************************************)
(* Claims about getBalance (specification SpecBalance).                    *)
(***************************************************************************)
\* C20: getBalance of every chain never throws; when the query fails (network
\* error, malformed answer, invalid address) it returns "0".
C20_BalanceZeroOnFailure ==
    \A chain \in Chains :
        balance[chain].answer \notin {"", "ok"}
            => (~balance[chain].threw /\ balance[chain].result = "0")

(***************************************************************************)
(* The order of the checks in GET (specification Spec).                    *)
(***************************************************************************)
\* C25: a request answered 400 or 403 has taken one unit of its client's
\* window (the counter went up by one, or a new window started at 1), and a
\* request of a client whose window is used up is answered 429 whatever its
\* endpoint is, the allow-listed ones included.
C25_RejectedRequestsAreCounted ==
    [][\A r \in Reqs :
          Arrives(r) =>
              LET ip == req'[r].ip
                  old == ipRateLimits[ip]
                  live == old # NoEntry /\ now <= old.resetTime
              IN  /\ req'[r].resp.status \in {400, 403}
                        => /\ ipRateLimits'[ip].count
                                 = IF live THEN old.count + 1 ELSE 1
                           /\ ~(live /\ old.count >= limit)
                  /\ (live /\ old.count >= limit) => req'[r].resp.status = 429]_vars

\* Nothing was ever forwarded, so the whole window of the client was used by
\* requests answered 400 or 403, and an allow-listed request is answered 429.
C25_Witness ==
    \E r, other \in Reqs :
        /\ req[r].pc = "done"
        /\ req[r].resp.status = 429
        /\ isAllowed(req[r].endpoint)
        /\ req[other].pc = "done"
        /\ req[other].resp.status \in {400, 403}
        /\ req[other].ip = req[r].ip
        /\ ipRateLimits[req[r].ip].count = limit
        /\ now <= ipRateLimits[req[r].ip].resetTime
        /\ now < reservoirRefreshInterval
        /\ reservoir = ReservoirSize
        /\ queue = <<>>
        /\ running = 0

(***************************************************************************)
(* Claims about PINManager (specification SpecPin).                        *)
(***************************************************************************)
\* Caller c calls verifyPIN in this step.
VerifyStarts(c) ==
    /\ pinCalls[c].pc = "idle"
    /\ pinCalls'[c].op = "verifyPIN"
    /\ pinCalls'[c].turn # pinCalls[c].turn

\* C21 as stated: once a failure has brought the counter to 5, every call of
\* verifyPIN made in the 30 minutes after that failure is refused with the
\* lockout error and changes nothing, the correct PIN included, and a call
\* made later is evaluated with the counter back at zero.  (The 30 minutes
\* are read as the code reads them: they end when Date.now() exceeds the time
\* of the failure plus LOCKOUT_DURATION.)
C21_LockedForThirtyMinutes ==
    [][\A c \in PinCallers :
          (VerifyStarts(c) /\ pinHistory.since # NoItem)
              => IF now <= pinHistory.since[1] + LOCKOUT_DURATION
                 THEN /\ pinCalls'[c].result = "locked"
                      /\ localStorage' = localStorage
                 ELSE /\ pinCalls'[c].result # "locked"
                      /\ getAttempts(localStorage') = 0]_vars

\* C26 as stated: the stored counter is between 0 and 5, a lockout timestamp
\* is stored exactly when the counter is at least 5, and a call of verifyPIN
\* made when no PIN is stored returns false and leaves the counter alone.
C26_CounterAtMostFive ==
    /\ [](/\ getAttempts(localStorage) \in 0..MAX_ATTEMPTS
          /\ localStorage.pin_lockout # NoItem
                <=> getAttempts(localStorage) >= MAX_ATTEMPTS)
    /\ [][\A c \in PinCallers :
            (VerifyStarts(c) /\ localStorage.user_pin = NoItem)
                => /\ pinCalls'[c].result = "false"
                   /\ localStorage'.pin_attempts = localStorage.pin_attempts]_vars

\* C27: when setPIN or removePIN is the call that completed last, neither a
\* counter nor a lockout timestamp is stored, whatever was stored before; and
\* a call of verifyPIN(p) made when setPIN(p) is the call that completed last
\* is not refused and returns true, also when that setPIN ended a lockout.
C27_SetAndRemoveClearTheLockout ==
    /\ pinHistory.last.op \in {"setPIN", "removePIN"}
          => /\ localStorage.pin_attempts = NoItem
             /\ localStorage.pin_lockout = NoItem
    /\ pinHistory.last.op = "setPIN"
          => localStorage.user_pin = hashPassword(pinHistory.last.pin)
    /\ \A c \in PinCallers :
          (pinCalls[c].op = "verifyPIN" /\ pinCalls[c].afterSetPIN # "")
              => IF pinCalls[c].pc = "hashing"
                 THEN pinCalls[c].storedPIN = hashPassword(pinCalls[c].pin)
                 ELSE pinCalls[c].result = "true"

\* A verifyPIN(p) that returned true although a lockout was in force until the
\* setPIN(p) before it, with no time gone by since.
C27_Witness ==
    \E c \in PinCallers :
        /\ pinCalls[c].op = "verifyPIN"
        /\ pinCalls[c].afterSetPIN = "unlocked"
        /\ pinCalls[c].result = "true"

(***************************************************************************)
(* Claims about decrypt in sendTransaction (specification SpecWallet).     *)
(***************************************************************************)
\* C22 as stated: when decrypt fails (the stored text is corrupted or the key
\* is the wrong one), the send is rejected with the error of decrypt before
\* the chain service is called, so nothing is signed and nothing is sent.
C22_DecryptFailureIsFatal ==
    send.decrypt \in {"corrupted", "wrongKey"}
        => /\ send.pc = "rejected"
           /\ send.error = "Decryption failed"
           /\ send.steps = <<>>
           /\ send.signCalls = 0
           /\ send.broadcasts = 0

(***************************************************************************)
(* Claims about the wallets of the store (specification SpecStore).        *)
(***************************************************************************)
\* The state of the store that deleteWallet can change.
WalletState ==
    [wallets |-> wallets, activeWallet |-> activeWallet,
     isConnected |-> isConnected, isLocked |-> isLocked]

\* C28: activeWallet is null or has the id of a wallet in the list; a step
\* that removes the active wallet makes the first remaining wallet active or,
\* when none remains, leaves no active wallet, isLocked true and isConnected
\* false; deleteWallet and switchWallet with an id that no wallet has change
\* nothing.
C28_ActiveWalletIsInTheList ==
    /\ [](/\ activeWallet # NoWallet =>
                \E i \in 1..Len(wallets) : wallets[i].id = activeWallet.id
          /\ \A walletId \in WalletIds :
                walletIndex(wallets, walletId) = 0 =>
                    /\ deleteWallet(walletId) = WalletState
                    /\ switchWallet(walletId) = activeWallet)
    /\ [][Len(wallets') < Len(wallets) =>
            \E walletId \in WalletIds :
                /\ walletIndex(wallets, walletId) # 0
                /\ wallets' = splice(wallets, walletIndex(wallets, walletId))
                /\ IF activeWallet.id # walletId
                   THEN UNCHANGED <<activeWallet, isLocked, isConnected>>
                   ELSE IF wallets' # <<>>
                   THEN activeWallet' = wallets'[1]
                        /\ UNCHANGED <<isLocked, isConnected>>
                   ELSE activeWallet' = NoWallet /\ isLocked' /\ ~isConnected']_vars

\* createWallet has made a wallet, which was active, and the wallet was deleted
\* while createWallet's balance query was in flight: none is left.
C28_Witness ==
    /\ wallets = <<>>
    /\ activeWallet = NoWallet
    /\ isLocked /\ ~isConnected
    /\ \E c \in Callers : calls[c].op = "createWallet" /\ calls[c].pc = "fetch"

(***************************************************************************)
(* Claims about the balances of the tokens (specification SpecTokens).     *)
(***************************************************************************)
\* The token with this address on this chain is in the list before and after
\* the step and its balance field is not what it was.
BalanceChanged(address, chainId) ==
    LET i == tokenIndex(tokenList, address, chainId)
        j == tokenIndex(tokenList', address, chainId)
    IN  i # 0 /\ j # 0 /\ tokenList'[j].balance # tokenList[i].balance

\* The step is the end of an updateTokenBalance call of caller c for the token,
\* and the token's balance is now what the call's balance query returned for
\* the address and the chain the call had read: a text of the service or '0'.
Refreshed(c, address, chainId) ==
    LET call == calls[c]
        j == tokenIndex(tokenList', address, chainId)
        fetched == [amount |-> "balance", of |-> call.address, on |-> call.chain]
    IN  /\ call.pc \in {"fetch", "price"}
        /\ calls'[c].pc \notin {"fetch", "price"}
        /\ sameToken(tokenList'[j], call.tokenAddress, call.chainId)
        /\ tokenList'[j].balance \in
              (IF call.pc = "price" THEN {call.balance} ELSE {fetched, ZeroBalance})

\* The call of caller c is the updateTokenBalance that addToken ends with, for
\* a token that was in the list already.
AddedAgain(c) == calls[c].op \in {"addToken", "importTokensByAddress"} /\ calls[c].present

\* C24 as stated: the balance of a token in the list changes only in a step
\* that ends an updateTokenBalance call, to the result of that call's query, and
\* never in an addToken of a token that is in the list already; the steps of
\* sendTransaction, updateMarketData, removeToken and switchWallet leave it.
C24_BalanceChangedOnlyByUpdate ==
    [][\A address \in TokenAddresses, chainId \in TokenChainIds :
          BalanceChanged(address, chainId) =>
              \E c \in Callers : Refreshed(c, address, chainId) /\ ~AddedAgain(c)]_vars

\* C24 amended: the balance of a token in the list changes only in a step that
\* ends an updateTokenBalance call, whoever made the call, addToken included,
\* and it becomes the result of that call's balance query; every other step,
\* of sendTransaction, updateMarketData, removeToken and switchWallet among
\* them, leaves the balance of every token that stays in the list.
C24_BalanceChangedOnlyByRefresh ==
    [][\A address \in TokenAddresses, chainId \in TokenChainIds :
          BalanceChanged(address, chainId) =>
              \E c \in Callers : Refreshed(c, address, chainId)]_vars

\* A token has a balance that a query returned, a transaction was sent, market
\* data gave the token a value, and the active wallet was switched to the
\* first of two.
C24_Witness ==
    /\ \E i \in 1..Len(tokenList) :
          /\ tokenList[i].balance.amount = "balance"
          /\ tokenList[i].balanceUSD # ZeroUSD
    /\ transactions # <<>>
    /\ Len(wallets) = 2 /\ activeWallet = wallets[1]

(***************************************************************************)
(* Claims about the entries of the token list (specification               *)
(* SpecTokenList).                                                         *)
(***************************************************************************)
\* No two entries of the list have the same chainId and the same address
\* compared case-insensitively.
Unique(list) ==
    \A i, j \in 1..Len(list) :
        i < j => ~sameToken(list[i], list[j].address, list[j].chainId)

\* The entries of the list without their balance fields.
Entries(list) ==
    [i \in 1..Len(list) |->
        [address |-> list[i].address, chainId |-> list[i].chainId,
         symbol |-> list[i].symbol]]

\* The step is the set() of an addToken made by caller c, directly or by
\* importTokensByAddress, for a token that is in the list.
AddsAgain(c) ==
    /\ calls[c].pc \in {"idle", "info"}
    /\ calls'[c].pc \in {"fetch", "price"}
    /\ AddedAgain(c)'

\* The step ends the updateTokenBalance call of such an addToken.
EndsAddingAgain(c) ==
    /\ calls[c].pc \in {"fetch", "price"}
    /\ calls'[c].pc \notin {"fetch", "price"}
    /\ AddedAgain(c)

\* A step takes at most one entry out of the list, the others keep their order.
AtMostOneRemoved ==
    Len(tokenList') < Len(tokenList) =>
        \E i \in 1..Len(tokenList) : tokenList' = splice(tokenList, i)

\* C29 as stated: the list never has two entries with the same chainId and the
\* same address compared case-insensitively; addToken of a token that is in
\* the list leaves the list as it is, from its call to its return; a step
\* removes at most one entry.
C29_UniqueAndIdempotent ==
    /\ []Unique(tokenList)
    /\ [][/\ AtMostOneRemoved
          /\ \A c \in Callers :
                AddsAgain(c) \/ EndsAddingAgain(c) => tokenList' = tokenList]_vars

\* C29 amended: the list never has two such entries; addToken of a token that
\* is in the list adds and removes no entry: its set() leaves the list as it
\* is, and the updateTokenBalance it ends with changes balance fields only; a
\* step removes at most one entry.
C29_UniqueAndNoEntryAdded ==
    /\ []Unique(tokenList)
    /\ [][/\ AtMostOneRemoved
          /\ \A c \in Callers :
                /\ AddsAgain(c) => tokenList' = tokenList
                /\ EndsAddingAgain(c) => Entries(tokenList') = Entries(tokenList)]_vars

\* The list holds two tokens, importTokensByAddress has added a token that was
\* in the list, in its other spelling, and waits for the balance, and so does
\* an addToken of the other caller.
C29_Witness ==
    /\ Len(tokenList) = 2
    /\ \E c, d \in Callers :
          /\ calls[c].op = "importTokensByAddress" /\ calls[c].pc = "fetch"
          /\ calls[c].present
          /\ \E i \in 1..Len(tokenList) :
                /\ sameToken(tokenList[i], calls[c].tokenAddress, calls[c].chainId)
                /\ tokenList[i].address # calls[c].tokenAddress
          /\ calls[d].op = "addToken" /\ calls[d].pc = "fetch" /\ calls[d].present

(***************************************************************************)
(* Claims about overlapping updateTokenBalance calls (specification        *)
(* SpecRace).                                                              *)
(***************************************************************************)
\* The updateTokenBalance call of caller c waits for its balance query or for
\* the price.
InFlight(c) == calls[c].pc \in {"fetch", "price"}

\* What a balance query can return for the address and the chain the call of
\* caller c read when it started.
ResultsFor(c) ==
    {ZeroBalance}
        \cup {[amount |-> a, of |-> calls[c].address, on |-> calls[c].chain] :
                   a \in {"balance", "NaN"}}

\* C30: updateTokenBalance reads activeWallet and selectedChain when it starts
\* and keeps what it read while it waits; when it ends and its token is in the
\* list, the token's balance becomes the result of its query for the address
\* and the chain it had read, whatever the active wallet and the selected
\* chain are by then and whatever another call has written in between.
C30_LastCompletionWins ==
    [][\A c \in Callers :
          InFlight(c) =>
              IF InFlight(c)'
              THEN /\ calls'[c].address = calls[c].address
                   /\ calls'[c].chain = calls[c].chain
                   /\ calls'[c].balance \in ResultsFor(c)
              ELSE LET call == calls[c]
                       i == tokenIndex(tokenList, call.tokenAddress, call.chainId)
                   IN  call.tokenAddress # "" /\ i # 0 =>
                          /\ tokenList'[i].balance \in ResultsFor(c)
                          /\ call.pc = "price" => tokenList'[i].balance = call.balance]_vars

\* A call has written the balance it fetched for a wallet or a chain that was
\* no longer the active or selected one, and that balance is in the store:
\* the token's balance is of another address than the active wallet's.
C30_Witness ==
    /\ \E c \in Callers : calls[c].pc = "idle" /\ calls[c].stale
    /\ \E i \in 1..Len(tokenList) :
          /\ tokenList[i].balance.amount = "balance"
          /\ tokenList[i].balance.of # activeWallet.address

(***************************************************************************)
(* Claims about the addresses and keys of the chains (specification        *)
(* SpecChains).                                                            *)
(***************************************************************************)
\* The seed phrase a wallet was made from.
phraseOf(wallet) == wallet.address.of

\* C23: a wallet created from a seed phrase holds, for every supported chain,
\* the address derived for that chain; a balance query on a chain is made for
\* the address derived for that chain, and the service of a chain is called
\* to send with the key derived for that chain.
C23_EachChainItsOwnAddressAndKey ==
    /\ \A i \in 1..Len(wallets), chain \in Chains :
          wallets[i].type = "generated" =>
              wallets[i].address = deriveAddress(phraseOf(wallets[i]), chain)
    /\ \A c \in Callers :
          calls[c].pc = "fetch" =>
              calls[c].address = deriveAddress(calls[c].address.of, calls[c].chain)
    /\ send.decrypt = "plain" =>
          send.key = deriveKey(phraseOf(send.wallet), send.chain)

====
